---------------------------- MODULE Spec2Model ----------------------------
(***************************************************************************)
(* Model of the eval-replay engine (run-traces-eval): the template engine  *)
(* (fillVariables, parseTextMarkerFormat, parseAndFillPrompt), the trace   *)
(* resolver (fetchTraceWithVariables with findMatchingObservation), the    *)
(* per-trace evaluation (runSingleEval) and the batched orchestrator       *)
(* (runTracesEvalFunction).                                                *)
(*                                                                         *)
(* Text is a sequence of symbols. A symbol is one character ("{", "a",     *)
(* "-", ...) or a lexeme standing for a run of characters that the code    *)
(* only ever treats as a whole (a role marker such as "[SYSTEM]", a JSON   *)
(* member name such as "role").                                            *)
(***************************************************************************)
EXTENDS Integers, Sequences, FiniteSets, TLC

(***************************************************************************)
(* Bounds of the model.                                                    *)
(***************************************************************************)
\* longest exhaustively enumerated template of the fill specification
MaxLen == 4
\* longest exhaustively enumerated template of the parse specification
MaxDraftLen == 3
\* longest exhaustively enumerated trace id list of a run
MaxTraces == 3
\* length of the one long trace id list of the model
ManyTraces == 23
\* most batches of a run the model counts (the count of a loop that does not
\* end stays there)
MaxBatches == 6
\* most executions of a failing step the scheduler makes before it gives up
MaxAttempts == 2

(***************************************************************************)
(* Text helpers: what the JavaScript string primitives do.                 *)
(***************************************************************************)
Min(a, b) == IF a < b THEN a ELSE b
Max(a, b) == IF a > b THEN a ELSE b

\* all texts over alphabet A of length at most n
Texts(A, n) == UNION {[1..k -> A] : k \in 0..n}

\* s.startsWith(p) at 1-based position i
MatchAt(s, i, p) ==
    /\ i + Len(p) - 1 <= Len(s)
    /\ SubSeq(s, i, i + Len(p) - 1) = p

\* s.includes(p)
Includes(s, p) == \E i \in 1..(Len(s) + 1) : MatchAt(s, i, p)

\* the suffix of s from position i on
From(s, i) == SubSeq(s, i, Len(s))

\* "text" in double quotes
Q == "\""
Quoted(text) == <<Q>> \o text \o <<Q>>

\* an entry of an object: a key and its value
Entry(k, v) == [k |-> k, v |-> v]

\* the character class [\w-]: word characters, underscore and hyphen. A word
\* lexeme is a run of word characters.
WordSyms == {"a", "b", "c", "x", "A", "_", "-", "name", "Ada", "ctx", "q",
             "docs", "help", "Hello", "Use", "role", "content", "system",
             "user", "null"}
IsWord(c) == c \in WordSyms

\* characters that make `new RegExp` throw a SyntaxError when a key holding
\* them is spliced into the pattern unescaped (an unterminated group)
RegExpBreakers == {"("}

(***************************************************************************)
(* Template engine: fillVariables.                                         *)
(***************************************************************************)
\* a JSON value as the code tells values apart: a string, null/undefined, an
\* object (bag: its entries, in insertion order), the empty array, a number
StrVal(s) == [t |-> "str", s |-> s, bag |-> <<>>]
NullVal == [t |-> "null", s |-> <<>>, bag |-> <<>>]
ObjOf(bag) == [t |-> "obj", s |-> <<>>, bag |-> bag]
ObjVal == ObjOf(<<>>)
ArrVal == [t |-> "arr", s |-> <<>>, bag |-> <<>>]
NumVal == [t |-> "num", s |-> <<"1">>, bag |-> <<>>]

\* value !== null && value !== undefined ? String(value) : ''
StringOf(v) ==
    CASE v.t = "str" -> v.s
      [] v.t = "null" -> <<>>
      [] v.t = "arr" -> <<>>
      [] v.t = "num" -> v.s
      [] OTHER -> <<"[object Object]">>

RECURSIVE Expand(_, _)
\* the text a replacement string r stands for at a match: the replacement
\* pattern $& is the matched text and $$ is one dollar sign
Expand(r, matched) ==
    IF Len(r) = 0 THEN <<>>
    ELSE (CASE Head(r) = "$&" -> matched
            [] Head(r) = "$$" -> <<"$">>
            [] OTHER -> <<Head(r)>>) \o Expand(Tail(r), matched)

RECURSIVE ReplaceAll(_, _, _)
\* s.replace(new RegExp(p, 'g'), r) for a pattern p of literal characters:
\* one left-to-right pass over non-overlapping matches, the inserted text is
\* not scanned again
ReplaceAll(s, p, r) ==
    IF Len(s) = 0 THEN <<>>
    ELSE IF MatchAt(s, 1, p)
    THEN Expand(r, p) \o ReplaceAll(From(s, Len(p) + 1), p, r)
    ELSE <<Head(s)>> \o ReplaceAll(Tail(s), p, r)

RECURSIVE WordRun(_, _)
\* the length of the longest run of [\w-] characters of s from position i
WordRun(s, i) ==
    IF i <= Len(s) /\ IsWord(s[i]) THEN 1 + WordRun(s, i + 1) ELSE 0

\* the length of the match of  open [\w-]+ close  at the start of s, 0 if none
PlaceholderLen(s, open, close) ==
    IF ~MatchAt(s, 1, open) THEN 0
    ELSE LET n == WordRun(s, Len(open) + 1)
         IN  IF n >= 1 /\ MatchAt(s, Len(open) + n + 1, close)
             THEN Len(open) + n + Len(close)
             ELSE 0

RECURSIVE StripPlaceholders(_, _, _)
\* s.replace(/open[\w-]+close/g, '')
StripPlaceholders(s, open, close) ==
    IF Len(s) = 0 THEN <<>>
    ELSE LET n == PlaceholderLen(s, open, close)
         IN  IF n > 0 THEN StripPlaceholders(From(s, n + 1), open, close)
             ELSE <<Head(s)>> \o StripPlaceholders(Tail(s), open, close)

\* {{key}} and {key}
Braced2(k) == <<"{", "{">> \o k \o <<"}", "}">>
Braced1(k) == <<"{">> \o k \o <<"}">>

\* new RegExp(`\\{\\{${key}\\}\\}`, 'g') throws for such a key
KeyThrows(key) == \E i \in 1..Len(key) : key[i] \in RegExpBreakers

\* key.replace(/from/g, to)
SwapChar(key, from, to) ==
    [i \in 1..Len(key) |-> IF key[i] = from THEN to ELSE key[i]]

\* the two replace calls of one spelling: {{k}} first, then {k}
FillBoth(s, k, v) == ReplaceAll(ReplaceAll(s, Braced2(k), v), Braced1(k), v)

\* one iteration of the loop without the underscore spelling of the key
FillKeyHyphenOnly(s, key, v) ==
    LET r1 == FillBoth(s, key, v)
        hyphenKey == SwapChar(key, "_", "-")
    IN  IF hyphenKey # key THEN FillBoth(r1, hyphenKey, v) ELSE r1

\* one iteration of the loop over Object.entries(variables)
FillKey(s, key, v) ==
    LET r1 == FillBoth(s, key, v)
        hyphenKey == SwapChar(key, "_", "-")
        r2 == IF hyphenKey # key THEN FillBoth(r1, hyphenKey, v) ELSE r1
        underscoreKey == SwapChar(key, "-", "_")
    IN  IF underscoreKey # key THEN FillBoth(r2, underscoreKey, v) ELSE r2

RECURSIVE FillLoop(_, _)
\* the loop over the entries, in insertion order; a key that breaks the
\* regular expression throws out of the loop
FillLoop(s, entries) ==
    IF entries = <<>> THEN [thrown |-> FALSE, text |-> s]
    ELSE IF KeyThrows(Head(entries).k) THEN [thrown |-> TRUE, text |-> <<>>]
    ELSE FillLoop(FillKey(s, Head(entries).k, StringOf(Head(entries).v)),
                  Tail(entries))

\* fillVariables(template, variables): [thrown, text]
fillVariables(template, variables) ==
    LET r == FillLoop(template, variables)
    IN  IF r.thrown THEN r
        ELSE [thrown |-> FALSE,
              text |-> StripPlaceholders(
                           StripPlaceholders(r.text, <<"{", "{">>, <<"}", "}">>),
                           <<"{">>, <<"}">>)]

\* the text holds a substring {word} (and so also covers {{word}})
HasPlaceholder(s) ==
    \E i \in 1..Len(s) : PlaceholderLen(From(s, i), <<"{">>, <<"}">>) > 0

(***************************************************************************)
(* JSON.parse on the subset of JSON the drafts of the model can spell:     *)
(* arrays, objects, strings without escapes, null, blanks between tokens.  *)
(***************************************************************************)
JNull == [t |-> "null", s |-> <<>>, items |-> <<>>, members |-> <<>>]
JStr(s) == [t |-> "str", s |-> s, items |-> <<>>, members |-> <<>>]
JArr(items) == [t |-> "arr", s |-> <<>>, items |-> items, members |-> <<>>]
JObj(members) == [t |-> "obj", s |-> <<>>, items |-> <<>>, members |-> members]
ParseFail == [ok |-> FALSE, v |-> JNull, next |-> 0]

RECURSIVE SkipBlanks(_, _)
\* the first position from i on that holds no blank
SkipBlanks(s, i) ==
    IF i <= Len(s) /\ s[i] = " " THEN SkipBlanks(s, i + 1) ELSE i

RECURSIVE StringEnd(_, _)
\* the position of the closing quote of a string whose text starts at i, 0 if
\* the string is not closed
StringEnd(s, i) ==
    IF i > Len(s) THEN 0
    ELSE IF s[i] = "\"" THEN i
    ELSE StringEnd(s, i + 1)

RECURSIVE ParseValue(_, _)
RECURSIVE ParseItems(_, _, _)
RECURSIVE ParseMembers(_, _, _)

\* a JSON value starting at position i (blanks skipped): [ok, v, next]
ParseValue(s, i0) ==
    LET i == SkipBlanks(s, i0)
    IN  IF i > Len(s) THEN ParseFail
        ELSE IF s[i] = "null" THEN [ok |-> TRUE, v |-> JNull, next |-> i + 1]
        ELSE IF s[i] = "\"" THEN
            LET e == StringEnd(s, i + 1)
            IN  IF e = 0 THEN ParseFail
                ELSE [ok |-> TRUE, v |-> JStr(SubSeq(s, i + 1, e - 1)),
                      next |-> e + 1]
        ELSE IF s[i] = "[" THEN
            LET j == SkipBlanks(s, i + 1)
            IN  IF j <= Len(s) /\ s[j] = "]"
                THEN [ok |-> TRUE, v |-> JArr(<<>>), next |-> j + 1]
                ELSE ParseItems(s, j, <<>>)
        ELSE IF s[i] = "{" THEN
            LET j == SkipBlanks(s, i + 1)
            IN  IF j <= Len(s) /\ s[j] = "}"
                THEN [ok |-> TRUE, v |-> JObj(<<>>), next |-> j + 1]
                ELSE ParseMembers(s, j, <<>>)
        ELSE ParseFail

\* the elements of an array from position i on, up to its closing bracket
ParseItems(s, i, acc) ==
    LET e == ParseValue(s, i)
    IN  IF ~e.ok THEN ParseFail
        ELSE LET j == SkipBlanks(s, e.next)
             IN  IF j > Len(s) THEN ParseFail
                 ELSE IF s[j] = "]"
                 THEN [ok |-> TRUE, v |-> JArr(Append(acc, e.v)), next |-> j + 1]
                 ELSE IF s[j] = ","
                 THEN ParseItems(s, j + 1, Append(acc, e.v))
                 ELSE ParseFail

\* the members of an object from position i on, up to its closing brace
ParseMembers(s, i0, acc) ==
    LET i == SkipBlanks(s, i0)
    IN  IF i > Len(s) \/ s[i] # "\"" THEN ParseFail
        ELSE LET e == StringEnd(s, i + 1)
                 c == IF e = 0 THEN 0 ELSE SkipBlanks(s, e + 1)
             IN  IF e = 0 \/ c > Len(s) \/ s[c] # ":" THEN ParseFail
                 ELSE LET val == ParseValue(s, c + 1)
                          j == IF val.ok THEN SkipBlanks(s, val.next) ELSE 0
                          m == [k |-> SubSeq(s, i + 1, e - 1), v |-> val.v]
                      IN  IF ~val.ok \/ j > Len(s) THEN ParseFail
                          ELSE IF s[j] = "}"
                          THEN [ok |-> TRUE, v |-> JObj(Append(acc, m)),
                                next |-> j + 1]
                          ELSE IF s[j] = ","
                          THEN ParseMembers(s, j + 1, Append(acc, m))
                          ELSE ParseFail

\* JSON.parse(text): [ok, v]; not ok is the SyntaxError
JSONparse(text) ==
    LET r == ParseValue(text, 1)
    IN  IF r.ok /\ SkipBlanks(text, r.next) > Len(text)
        THEN [ok |-> TRUE, v |-> r.v]
        ELSE [ok |-> FALSE, v |-> JNull]

\* obj[key] of a parsed value: the last member of that name; [has, v]
Member(obj, key) ==
    LET idx == {i \in 1..Len(obj.members) : obj.members[i].k = key}
    IN  IF obj.t # "obj" \/ idx = {} THEN [has |-> FALSE, v |-> JNull]
        ELSE [has |-> TRUE,
              v |-> obj.members[CHOOSE i \in idx : \A j \in idx : j <= i].v]

\* the truthiness of a member that may be absent
Truthy(m) ==
    /\ m.has
    /\ m.v.t # "null"
    /\ ~(m.v.t = "str" /\ m.v.s = <<>>)

(***************************************************************************)
(* Template engine: parseTextMarkerFormat and parseAndFillPrompt.          *)
(***************************************************************************)
\* the role markers in upper case, and one spelling of each in another case
UpperMarkers == {"[SYSTEM]", "[USER]", "[ASSISTANT]"}
OtherCaseMarkers == {"[system]", "[user]", "[assistant]"}
Markers == UpperMarkers \cup OtherCaseMarkers

\* trimmed.toUpperCase() of a marker, as the role it selects
MarkerRole(m) ==
    CASE m \in {"[SYSTEM]", "[system]"} -> "system"
      [] m \in {"[USER]", "[user]"} -> "user"
      [] OTHER -> "assistant"

RECURSIVE TrimStart(_)
TrimStart(s) == IF Len(s) > 0 /\ Head(s) = " " THEN TrimStart(Tail(s)) ELSE s

RECURSIVE TrimEnd(_)
TrimEnd(s) ==
    IF Len(s) > 0 /\ s[Len(s)] = " " THEN TrimEnd(SubSeq(s, 1, Len(s) - 1))
    ELSE s

\* s.trim()
Trim(s) == TrimEnd(TrimStart(s))

\* text.includes('[SYSTEM]') || text.includes('[USER]') || ...: case-sensitive
hasMarkers(text) == \E i \in 1..Len(text) : text[i] \in UpperMarkers

RECURSIVE MarkerScan(_, _, _, _)
\* the loop over text.split(/(\[SYSTEM\]|\[USER\]|\[ASSISTANT\])/i): seg is the
\* part being read, role the currentRole ("" for null), acc the messages
MarkerScan(rest, seg, role, acc) ==
    LET flushed == IF Trim(seg) # <<>> /\ role # ""
                   THEN Append(acc, [role |-> role, content |-> Trim(seg)])
                   ELSE acc
    IN  IF rest = <<>> THEN flushed
        ELSE IF Head(rest) \in Markers
        THEN MarkerScan(Tail(rest), <<>>, MarkerRole(Head(rest)), flushed)
        ELSE MarkerScan(Tail(rest), Append(seg, Head(rest)), role, acc)

\* parseTextMarkerFormat(text): [isNull, messages]
parseTextMarkerFormat(text) ==
    IF ~hasMarkers(text) THEN [isNull |-> TRUE, messages |-> <<>>]
    ELSE LET messages == MarkerScan(text, <<>>, "", <<>>)
         IN  [isNull |-> messages = <<>>, messages |-> messages]

\* draftPrompt.trim().startsWith('[')
StartsWithBracket(draftPrompt) ==
    LET t == Trim(draftPrompt)
    IN  Len(t) > 0 /\ (Head(t) = "[" \/ Head(t) \in Markers)

\* msg.role as logged in the message
RoleOf(msg) ==
    LET m == Member(msg, <<"role">>)
    IN  IF m.has /\ m.v.t = "str" THEN m.v.s ELSE <<>>

\* msg.content of an element is a string fillVariables can work on; on any
\* other element the map callback throws a TypeError
ContentIsString(msg) ==
    LET m == Member(msg, <<"content">>) IN m.has /\ m.v.t = "str"

\* the try block of the JSON branch: [taken, messages]; a SyntaxError of
\* JSON.parse, a TypeError of the test or of the map callback and an error
\* thrown by fillVariables all end in the catch, and the branch is not taken
JsonBranch(draftPrompt, variables) ==
    LET parsed == JSONparse(draftPrompt)
        none == [taken |-> FALSE, messages |-> <<>>]
    IN  IF ~StartsWithBracket(draftPrompt) \/ ~parsed.ok THEN none
        ELSE IF parsed.v.t # "arr" \/ Len(parsed.v.items) = 0 THEN none
        ELSE IF parsed.v.items[1].t = "null" THEN none
        ELSE IF ~Truthy(Member(parsed.v.items[1], <<"role">>)) THEN none
        ELSE IF ~ContentIsString(parsed.v.items[1]) THEN none
        ELSE IF \E i \in 1..Len(parsed.v.items) :
                    \/ ~ContentIsString(parsed.v.items[i])
                    \/ fillVariables(
                           Member(parsed.v.items[i], <<"content">>).v.s,
                           variables).thrown
        THEN none
        ELSE [taken |-> TRUE,
              messages |->
                  [i \in 1..Len(parsed.v.items) |->
                      [role |-> RoleOf(parsed.v.items[i]),
                       content |-> fillVariables(
                           Member(parsed.v.items[i], <<"content">>).v.s,
                           variables).text]]]

\* parseAndFillPrompt(draftPrompt, variables): [thrown, format, messages, text]
parseAndFillPrompt(draftPrompt, variables) ==
    LET j == JsonBranch(draftPrompt, variables)
        tm == parseTextMarkerFormat(draftPrompt)
        plain == fillVariables(draftPrompt, variables)
        raised == [thrown |-> TRUE, format |-> "none", messages |-> <<>>,
                   text |-> <<>>]
    IN  IF j.taken
        THEN [thrown |-> FALSE, format |-> "json", messages |-> j.messages,
              text |-> <<>>]
        ELSE IF ~tm.isNull
        THEN IF \E i \in 1..Len(tm.messages) :
                    fillVariables(tm.messages[i].content, variables).thrown
             THEN raised
             ELSE [thrown |-> FALSE, format |-> "text-markers",
                   messages |->
                       [i \in 1..Len(tm.messages) |->
                           [role |-> <<tm.messages[i].role>>,
                            content |-> fillVariables(tm.messages[i].content,
                                                      variables).text]],
                   text |-> <<>>]
        ELSE IF plain.thrown THEN raised
        ELSE [thrown |-> FALSE, format |-> "plain", messages |-> <<>>,
              text |-> plain.text]

(***************************************************************************)
(* Trace resolver: findMatchingObservation.                                *)
(*                                                                         *)
(* An observation is [id, name, metadata, output]; name is an optional     *)
(* text [has, s]; metadata is an optional object [has, bag]; output is a   *)
(* JSON value.                                                             *)
(***************************************************************************)
Some(s) == [has |-> TRUE, s |-> s]
None == [has |-> FALSE, s |-> <<>>]
SomeVal(v) == [has |-> TRUE, v |-> v]
NoVal == [has |-> FALSE, v |-> NullVal]

\* c.toLowerCase() of one character
LowerChar(c) ==
    CASE c = "A" -> "a"
      [] c = "B" -> "b"
      [] OTHER -> c

IsNotHyphen(c) == c # "-"

\* s.toLowerCase().replace(/-/g, '')
Normalized(s) == SelectSeq([i \in 1..Len(s) |-> LowerChar(s[i])], IsNotHyphen)

RECURSIVE LastSegment(_)
\* s.split('/').pop()
LastSegment(s) ==
    IF \E i \in 1..Len(s) : s[i] = "/"
    THEN LastSegment(Tail(s))
    ELSE s

\* originalPromptName.split('/').pop() || originalPromptName
PromptBaseName(originalPromptName) ==
    IF LastSegment(originalPromptName) # <<>>
    THEN LastSegment(originalPromptName)
    ELSE originalPromptName

\* a text that is present and not empty
TruthyText(o) == o.has /\ o.s # <<>>

\* obs.name === originalPromptName
ExactMatch(obs, originalPromptName) ==
    obs.name.has /\ obs.name.s = originalPromptName

\* the observation's normalized name includes the normalized prompt name
NormalizedMatch(obs, originalPromptName) ==
    /\ TruthyText(obs.name)
    /\ Includes(Normalized(obs.name.s),
                Normalized(PromptBaseName(originalPromptName)))

FunctionNameKey == <<"function-name">>
PromptNameKey == <<"promptName">>
PromptVariablesKey == <<"promptVariables">>

\* obj[key] of a bag of entries: [has, v]
Lookup(bag, key) ==
    LET idx == {i \in 1..Len(bag) : bag[i].k = key}
    IN  IF idx = {} THEN NoVal ELSE SomeVal(bag[CHOOSE i \in idx : TRUE].v)

\* the truthiness of a JSON value
TruthyVal(v) ==
    CASE v.t = "null" -> FALSE
      [] v.t = "str" -> v.s # <<>>
      [] OTHER -> TRUE

\* metadata['function-name'], normalized, includes or is included in the
\* normalized prompt name
FunctionNameMatch(obs, originalPromptName) ==
    LET funcName == Lookup(obs.metadata.bag, FunctionNameKey)
        promptNormalized == Normalized(PromptBaseName(originalPromptName))
    IN  /\ obs.metadata.has
        /\ funcName.has
        /\ TruthyVal(funcName.v)
        /\ \/ Includes(Normalized(funcName.v.s), promptNormalized)
           \/ Includes(promptNormalized, Normalized(funcName.v.s))

\* metadata.promptName equals the prompt name or includes its base name
MetadataMatch(obs, originalPromptName) ==
    LET promptName == Lookup(obs.metadata.bag, PromptNameKey)
    IN  /\ obs.metadata.has
        /\ promptName.has
        /\ promptName.v.t = "str"
        /\ \/ promptName.v.s = originalPromptName
           \/ Includes(promptName.v.s, PromptBaseName(originalPromptName))

\* observations.find(pred), given the set of the indexes for which pred
\* holds: the first of them, 0 when there is none
FindFirst(hits) ==
    IF hits = {} THEN 0 ELSE CHOOSE h \in hits : \A j \in hits : h <= j

\* findMatchingObservation as one pass over the list: the first observation
\* that any of the four rules matches
findMatchingObservationOnePass(observations, originalPromptName) ==
    LET name == originalPromptName.s
        hits == {i \in 1..Len(observations) :
                    \/ ExactMatch(observations[i], name)
                    \/ NormalizedMatch(observations[i], name)
                    \/ FunctionNameMatch(observations[i], name)
                    \/ MetadataMatch(observations[i], name)}
    IN  IF Len(observations) = 0 THEN 0
        ELSE IF ~TruthyText(originalPromptName) \/ hits = {} THEN 1
        ELSE CHOOSE i \in hits : \A j \in hits : i <= j

\* findMatchingObservation(): the index of the chosen observation, 0 for null.
\* originalPromptName is an optional text
findMatchingObservation(observations, originalPromptName) ==
    LET name == originalPromptName.s
        first == IF Len(observations) > 0 THEN 1 ELSE 0
        all == 1..Len(observations)
        exact == FindFirst({n \in all : ExactMatch(observations[n], name)})
        normalized ==
            FindFirst({n \in all : NormalizedMatch(observations[n], name)})
        byFunction ==
            FindFirst({n \in all : FunctionNameMatch(observations[n], name)})
        byMetadata ==
            FindFirst({n \in all : MetadataMatch(observations[n], name)})
    IN  IF ~TruthyText(originalPromptName) \/ Len(observations) = 0 THEN first
        ELSE IF exact # 0 THEN exact
        ELSE IF normalized # 0 THEN normalized
        ELSE IF byFunction # 0 THEN byFunction
        ELSE IF byMetadata # 0 THEN byMetadata
        ELSE first

(***************************************************************************)
(* Trace resolver: extractObservationOutput and fetchTraceWithVariables.   *)
(*                                                                         *)
(* A trace is [metadata, input], each an optional object [has, bag].       *)
(***************************************************************************)
\* typeof v === 'object' for a value that is not null
IsObjectType(v) == v.t \in {"obj", "arr"}

RECURSIVE Stringify(_)
RECURSIVE StringifyEntries(_)
\* JSON.stringify(v)
Stringify(v) ==
    CASE v.t = "str" -> Quoted(v.s)
      [] v.t = "null" -> <<"null">>
      [] v.t = "num" -> v.s
      [] v.t = "arr" -> <<"[", "]">>
      [] OTHER -> <<"{">> \o StringifyEntries(v.bag) \o <<"}">>
StringifyEntries(bag) ==
    IF bag = <<>> THEN <<>>
    ELSE Quoted(Head(bag).k) \o <<":">> \o Stringify(Head(bag).v)
         \o (IF Len(bag) > 1 THEN <<",">> ELSE <<>>)
         \o StringifyEntries(Tail(bag))

\* extractObservationOutput(obs): an optional text, None for null
extractObservationOutput(obs) ==
    CASE obs.output.t = "null" -> None
      [] obs.output.t = "str" -> Some(obs.output.s)
      [] IsObjectType(obs.output) -> Some(Stringify(obs.output))
      [] OTHER -> None

\* the return value null
NotFound ==
    [found |-> FALSE, variables |-> <<>>, originalOutput |-> None,
     source |-> <<"none">>, observation |-> 0]

\* the variables found in trace.metadata, <<>> when there are none
TraceMetadataVariables(trace) ==
    LET pv == Lookup(trace.metadata.bag, PromptVariablesKey)
    IN  IF ~trace.metadata.has THEN <<>>
        ELSE IF pv.has /\ TruthyVal(pv.v) /\ pv.v.t = "obj" THEN pv.v.bag
        ELSE IF /\ Len(trace.metadata.bag) > 0
                /\ \A i \in 1..Len(trace.metadata.bag) :
                       \/ trace.metadata.bag[i].v.t = "str"
                       \/ IsObjectType(trace.metadata.bag[i].v)
        THEN trace.metadata.bag
        ELSE <<>>

\* the promptVariables of an optional object (trace.input, obs.metadata) when
\* they are an object with keys, <<>> otherwise
ObjectVariables(has, bag) ==
    LET pv == Lookup(bag, PromptVariablesKey)
    IN  IF has /\ pv.has /\ TruthyVal(pv.v) /\ IsObjectType(pv.v)
        THEN pv.v.bag
        ELSE <<>>

\* the result built around the observation findMatchingObservation() chose
WithMatchingObservation(variables, source, observations, originalPromptName) ==
    LET m == findMatchingObservation(observations, originalPromptName)
    IN  [found |-> TRUE, variables |-> variables,
         originalOutput |-> IF m = 0 THEN None
                            ELSE extractObservationOutput(observations[m]),
         source |-> source, observation |-> m]

\* fetchTraceWithVariables taking the output and the observation of a result
\* found in an observation's metadata from findMatchingObservation()
fetchTraceWithVariablesByName(trace, fetched, originalPromptName, credentials, traceFetch, obsFetch) ==
    LET observations == IF obsFetch = "ok" THEN fetched ELSE <<>>
        fromMetadata == TraceMetadataVariables(trace)
        fromInput == ObjectVariables(trace.input.has, trace.input.bag)
        carriers == {i \in 1..Len(observations) :
                        ObjectVariables(observations[i].metadata.has,
                                        observations[i].metadata.bag) # <<>>}
        obs == CHOOSE i \in carriers : \A j \in carriers : i <= j
    IN  IF ~credentials THEN NotFound
        ELSE IF traceFetch # "ok" THEN NotFound
        ELSE IF obsFetch = "throw" THEN NotFound
        ELSE IF fromMetadata # <<>>
        THEN WithMatchingObservation(fromMetadata, <<"trace:metadata">>,
                                     observations, originalPromptName)
        ELSE IF fromInput # <<>>
        THEN WithMatchingObservation(fromInput, <<"trace:input">>,
                                     observations, originalPromptName)
        ELSE IF carriers # {}
        THEN WithMatchingObservation(
                 ObjectVariables(observations[obs].metadata.has,
                                 observations[obs].metadata.bag),
                 <<"observation", observations[obs].id>>,
                 observations, originalPromptName)
        ELSE NotFound

\* fetchTraceWithVariables returning a result with an empty variables object
\* where it has to return null
fetchTraceWithVariablesNeverNull(trace, fetched, originalPromptName, credentials, traceFetch, obsFetch) ==
    LET observations == IF obsFetch = "ok" THEN fetched ELSE <<>>
        fromMetadata == TraceMetadataVariables(trace)
        fromInput == ObjectVariables(trace.input.has, trace.input.bag)
        carriers == {n \in 1..Len(observations) :
                        ObjectVariables(observations[n].metadata.has,
                                        observations[n].metadata.bag) # <<>>}
        obs == CHOOSE n \in carriers : \A j \in carriers : n <= j
        empty == [NotFound EXCEPT !.found = TRUE]
    IN  IF ~credentials THEN NotFound
        ELSE IF traceFetch # "ok" THEN NotFound
        ELSE IF obsFetch = "throw" THEN NotFound
        ELSE IF fromMetadata # <<>>
        THEN WithMatchingObservation(fromMetadata, <<"trace:metadata">>,
                                     observations, originalPromptName)
        ELSE IF fromInput # <<>>
        THEN WithMatchingObservation(fromInput, <<"trace:input">>,
                                     observations, originalPromptName)
        ELSE IF carriers # {}
        THEN [found |-> TRUE,
              variables |-> ObjectVariables(observations[obs].metadata.has,
                                            observations[obs].metadata.bag),
              originalOutput |-> extractObservationOutput(observations[obs]),
              source |-> <<"observation", observations[obs].id>>,
              observation |-> obs]
        ELSE empty

\* fetchTraceWithVariables(traceId, originalPromptName) for a trace store that
\* holds `trace` and `fetched` observations for the trace id. credentials:
\* both keys are set; traceFetch, obsFetch: "ok", "status" (a response that
\* is not ok) or "throw" (fetch rejects)
fetchTraceWithVariables(trace, fetched, originalPromptName, credentials, traceFetch, obsFetch) ==
    LET observations == IF obsFetch = "ok" THEN fetched ELSE <<>>
        fromMetadata == TraceMetadataVariables(trace)
        fromInput == ObjectVariables(trace.input.has, trace.input.bag)
        carriers == {i \in 1..Len(observations) :
                        ObjectVariables(observations[i].metadata.has,
                                        observations[i].metadata.bag) # <<>>}
        obs == CHOOSE i \in carriers : \A j \in carriers : i <= j
    IN  IF ~credentials THEN NotFound
        ELSE IF traceFetch # "ok" THEN NotFound
        ELSE IF obsFetch = "throw" THEN NotFound
        ELSE IF fromMetadata # <<>>
        THEN WithMatchingObservation(fromMetadata, <<"trace:metadata">>,
                                     observations, originalPromptName)
        ELSE IF fromInput # <<>>
        THEN WithMatchingObservation(fromInput, <<"trace:input">>,
                                     observations, originalPromptName)
        ELSE IF carriers # {}
        THEN [found |-> TRUE,
              variables |-> ObjectVariables(observations[obs].metadata.has,
                                            observations[obs].metadata.bag),
              originalOutput |-> extractObservationOutput(observations[obs]),
              source |-> <<"observation", observations[obs].id>>,
              observation |-> obs]
        ELSE NotFound

(***************************************************************************)
(* The schema translator (lib/ai/zod-to-gemini-schema.ts).  A Zod schema   *)
(* is a node with its typeName, the schemas it wraps (innerType, type,     *)
(* schema, options), the shape of an object, the value of a literal, the   *)
(* values of an enum and the description of _def.                          *)
(***************************************************************************)
\* most fields of an object schema of the model
MaxFields == 2

Zod(typeName, inner, shape) ==
    [typeName |-> typeName, inner |-> inner, shape |-> shape,
     value |-> NullVal, values |-> <<>>, description |-> None]
Field(key, value) == [key |-> key, value |-> value]
describe(schema, text) == [schema EXCEPT !.description = Some(text)]

ZodString == Zod("ZodString", <<>>, <<>>)
ZodNumber == Zod("ZodNumber", <<>>, <<>>)
ZodBoolean == Zod("ZodBoolean", <<>>, <<>>)
ZodEnum(values) == [Zod("ZodEnum", <<>>, <<>>) EXCEPT !.values = values]
BoolVal == [t |-> "bool", s |-> <<"true">>, bag |-> <<>>]
ZodLiteral(value) == [Zod("ZodLiteral", <<>>, <<>>) EXCEPT !.value = value]
ZodDate == Zod("ZodDate", <<>>, <<>>)
ZodArray(type) == Zod("ZodArray", <<type>>, <<>>)
ZodObject(shape) == Zod("ZodObject", <<>>, shape)
ZodOptional(innerType) == Zod("ZodOptional", <<innerType>>, <<>>)
ZodNullable(innerType) == Zod("ZodNullable", <<innerType>>, <<>>)
ZodDefault(innerType) == Zod("ZodDefault", <<innerType>>, <<>>)
ZodEffects(schema) == Zod("ZodEffects", <<schema>>, <<>>)
ZodUnion(options) == Zod("ZodUnion", options, <<>>)

\* a Gemini Schema; an absent member is an empty sequence or None
GeminiSchema(type) ==
    [type |-> type, items |-> <<>>, properties |-> <<>>,
     required |-> [has |-> FALSE, v |-> <<>>], nullable |-> FALSE,
     enum |-> [has |-> FALSE, v |-> <<>>], description |-> None]
NoSchema == GeminiSchema("none")

\* zodValue.isOptional(), which Zod defines as safeParse(undefined).success:
\* an optional or a default wrapper takes undefined, a nullable wrapper and a
\* refinement hand it to the schema they wrap, a union takes what an option
\* takes, every other type of the model rejects it
RECURSIVE isOptional(_)
isOptionalWrapperOnly(schema) == schema.typeName = "ZodOptional"
isOptional(schema) ==
    CASE schema.typeName \in {"ZodOptional", "ZodDefault"} -> TRUE
      [] schema.typeName \in {"ZodNullable", "ZodEffects"} ->
            isOptional(schema.inner[1])
      [] schema.typeName = "ZodUnion" ->
            \E n \in 1..Len(schema.inner) : isOptional(schema.inner[n])
      [] OTHER -> FALSE

RECURSIVE convertZodType(_)
RECURSIVE handleZodObject(_)
\* the union's options are all literals of a string
AllStrings(unionTypes) ==
    \A n \in 1..Len(unionTypes) :
        unionTypes[n].typeName = "ZodLiteral" /\ unionTypes[n].value.t = "str"

\* { type: Type.STRING, enum: values }
StringEnum(values) ==
    [GeminiSchema("STRING") EXCEPT !.enum = [has |-> TRUE, v |-> values]]

\* convertZodType(schema)
convertZodType(schema) ==
    CASE schema.typeName = "ZodString" -> GeminiSchema("STRING")
      [] schema.typeName = "ZodNumber" -> GeminiSchema("NUMBER")
      [] schema.typeName = "ZodBoolean" -> GeminiSchema("BOOLEAN")
      [] schema.typeName = "ZodArray" ->
            [GeminiSchema("ARRAY") EXCEPT
                !.items = <<convertZodType(schema.inner[1])>>]
      [] schema.typeName = "ZodObject" -> handleZodObject(schema)
      [] schema.typeName = "ZodEnum" -> StringEnum(schema.values)
      [] schema.typeName = "ZodLiteral" ->
            (CASE schema.value.t = "str" -> StringEnum(<<schema.value.s>>)
               [] schema.value.t = "num" -> GeminiSchema("NUMBER")
               [] schema.value.t = "bool" -> GeminiSchema("BOOLEAN")
               [] OTHER -> GeminiSchema("STRING"))
      [] schema.typeName \in {"ZodOptional", "ZodDefault", "ZodEffects"} ->
            convertZodType(schema.inner[1])
      [] schema.typeName = "ZodNullable" ->
            [convertZodType(schema.inner[1]) EXCEPT !.nullable = TRUE]
      [] schema.typeName = "ZodUnion" ->
            IF AllStrings(schema.inner)
            THEN StringEnum([n \in 1..Len(schema.inner) |->
                                schema.inner[n].value.s])
            ELSE convertZodType(schema.inner[1])
      [] OTHER -> GeminiSchema("STRING")

\* the property of one field: its converted type, with the description of
\* the field's own _def when it has one
Property(zodValue) ==
    LET converted == convertZodType(zodValue)
    IN  IF zodValue.description.has
        THEN [converted EXCEPT !.description = zodValue.description]
        ELSE converted

\* the keys pushed to `required` by the loop over the first n fields
RECURSIVE RequiredKeys(_, _)
RequiredKeys(shape, n) ==
    IF n = 0 THEN <<>>
    ELSE IF ~isOptional(shape[n].value)
    THEN Append(RequiredKeys(shape, n - 1), shape[n].key)
    ELSE RequiredKeys(shape, n - 1)

handleZodObject(schema) ==
    LET shape == schema.shape
        required == RequiredKeys(shape, Len(shape))
    IN  [GeminiSchema("OBJECT") EXCEPT
            !.properties = [n \in 1..Len(shape) |->
                               Field(shape[n].key, Property(shape[n].value))],
            !.required = IF Len(required) > 0
                         THEN [has |-> TRUE, v |-> required]
                         ELSE [has |-> FALSE, v |-> <<>>]]

zodToGeminiSchema(schema) == convertZodType(schema)

(***************************************************************************)
(* State.                                                                  *)
(***************************************************************************)
VARIABLES
    tpc,           \* position of the template engine's caller
    template,      \* fillVariables: the template argument
    variables,     \* fillVariables / parseAndFillPrompt: the variables argument
    filled,        \* what fillVariables returned
    refilled,      \* what fillVariables returned for the text it returned
    draftPrompt,   \* parseAndFillPrompt: the draftPrompt argument
    filledPrompt,  \* what parseAndFillPrompt returned
    rpc,           \* position of fetchTraceWithVariables' caller
    trace,         \* trace store: the trace record of the trace id
    stored,        \* trace store: the GENERATION observations of the trace id
    originalPromptName, \* fetchTraceWithVariables: the optional prompt name
    credentials,   \* both LANGFUSE keys are set in the environment
    responses,     \* how the trace store answered the two fetches of the call
    observations,  \* fetchTraceWithVariables: its local list of observations
    resolved,      \* what fetchTraceWithVariables returned
    request,       \* runTracesEvalFunction: event.data, the EvalRunInput
    env,           \* per position of traceIds: how the collaborators answer
    pc,            \* runTracesEvalFunction: the step the run is at
    i,             \* the batch loop's index variable
    batchNo,       \* number of batches the loop has started
    batch,         \* positions of traceIds in the batch being awaited
    ev,            \* per position of traceIds: its runSingleEval call
    allResults,    \* the step's allResults, then the run's results
    evalResult,    \* the EvalRunResult
    returned,      \* what the function returned to the scheduler
    evalId,        \* the evalId of the current execution of the function body
    record,        \* the run's trace in the observability store
    blobKeys,      \* the evalIds of the keys storeDataInBlob was called with
    attempts,      \* failed executions of step 'store-results-blob'
    spc,           \* position of zodToGeminiSchema's caller
    zodSchema,     \* zodToGeminiSchema: the zodSchema argument
    geminiSchema   \* what zodToGeminiSchema returned

templateVars == <<tpc, template, variables, filled, refilled, draftPrompt,
                  filledPrompt>>
resolverVars == <<rpc, trace, stored, originalPromptName, credentials,
                  responses, observations, resolved>>
stepVars == <<evalId, record, blobKeys, attempts>>
runVars == <<request, env, pc, i, batchNo, batch, ev, allResults, evalResult,
             returned, stepVars>>
schemaVars == <<spc, zodSchema, geminiSchema>>
vars == <<templateVars, resolverVars, runVars, schemaVars>>

NoFill == [thrown |-> FALSE, text |-> <<>>]
NoPrompt == [thrown |-> FALSE, format |-> "none", messages |-> <<>>,
             text |-> <<>>]
NoObject == [has |-> FALSE, bag |-> <<>>]
NoTrace == [metadata |-> NoObject, input |-> NoObject]

\* the template engine is not in use
TemplateIdle ==
    /\ tpc = "idle"
    /\ template = <<>>
    /\ variables = <<>>
    /\ filled = NoFill
    /\ refilled = NoFill
    /\ draftPrompt = <<>>
    /\ filledPrompt = NoPrompt

Unset == [set |-> FALSE, val |-> 0]
Given(n) == [set |-> TRUE, val |-> n]
NoRequest ==
    [draftPrompt |-> <<>>, traceIds |-> <<>>, provider |-> "openai",
     originalPromptName |-> None, concurrency |-> Unset,
     traceObservationPairs |-> <<>>]
NoEvalResult ==
    [evalId |-> 0, totalTraces |-> 0, successCount |-> 0, failureCount |-> 0,
     results |-> <<>>, resultsUrl |-> None]
NoReturn == [done |-> FALSE, value |-> NoEvalResult]
NoRecord ==
    [created |-> FALSE, evalId |-> 0, completed |-> FALSE, resultsUrl |-> None,
     flushed |-> FALSE]

\* no run is in progress
RunIdle ==
    /\ request = NoRequest
    /\ env = <<>>
    /\ pc = "idle"
    /\ i = 0
    /\ batchNo = 0
    /\ batch = <<>>
    /\ ev = <<>>
    /\ allResults = <<>>
    /\ evalResult = NoEvalResult
    /\ returned = NoReturn
    /\ evalId = 0
    /\ record = NoRecord
    /\ blobKeys = {}
    /\ attempts = 0

\* the schema translator is not in use
SchemaIdle ==
    /\ spc = "idle"
    /\ zodSchema = ZodString
    /\ geminiSchema = NoSchema

\* the resolver is not in use
NoResponses == [traceFetch |-> "none", obsFetch |-> "none"]
ResolverIdle ==
    /\ rpc = "idle"
    /\ trace = NoTrace
    /\ stored = <<>>
    /\ originalPromptName = None
    /\ credentials = TRUE
    /\ responses = NoResponses
    /\ observations = <<>>
    /\ resolved = NotFound

(***************************************************************************)
(* Inputs of the template engine.                                          *)
(***************************************************************************)
FillAlphabet == {"{", "}", "a", "_", "-"}
ExampleTemplates ==
    { <<"{", "a", "{", "b", "}", "}">>,
      <<"{", "{", "a", "_", "b", "}", "}">>,
      <<"{", "{", "a", "-", "b", "}", "}">>,
      <<"{", "a", "-", "b", "}">>,
      <<"{", "a", "_", "b", "}">>,
      <<"{", "{", "a", "_", "b", "_", "c", "}", "}">>,
      <<"{", "a", "-", "b", "-", "c", "}">>,
      <<"x", " ", "{", "a", "_", "b", "}", " ", "{", "{", "a", "_", "b", "}", "}">>,
      <<"{", "{", "a", "}", "}">>,
      <<"{", "{", "a", "}", "}", " ", "{", "{", "b", "}", "}">>,
      <<"Hello", " ", "{", "{", "name", "}", "}", "!">> }
FillTemplates == Texts(FillAlphabet, MaxLen) \cup ExampleTemplates

SmallKeys == {<<"a">>, <<"_">>, <<"-">>}
SmallValues == {StrVal(<<"x">>), StrVal(<<"{", "a", "}">>), NullVal}
SmallEntries == {Entry(k, v) : k \in SmallKeys, v \in SmallValues}
\* mappings of at most two entries, keys unique, in insertion order
SmallMaps ==
    {<<>>} \cup {<<e>> : e \in SmallEntries}
           \cup {m \in [1..2 -> SmallEntries] : m[1].k # m[2].k}
ExampleMaps ==
    { <<Entry(<<"a", "-", "b">>, StrVal(<<"x">>))>>,
      <<Entry(<<"a", "_", "b">>, StrVal(<<"x">>))>>,
      <<Entry(<<"a", "-", "b", "_", "c">>, StrVal(<<"x">>))>>,
      <<Entry(<<"name">>, StrVal(<<"Ada">>))>>,
      <<Entry(<<"a">>, ObjVal)>>,
      <<Entry(<<"a">>, StrVal(<<"$&">>))>>,
      <<Entry(<<"a">>, StrVal(<<"x", "$$">>))>>,
      <<Entry(<<"a">>, StrVal(<<"{", "{", "b", "}", "}">>)),
        Entry(<<"b">>, StrVal(<<"x">>))>>,
      <<Entry(<<"b">>, StrVal(<<"x">>)),
        Entry(<<"a">>, StrVal(<<"{", "{", "b", "}", "}">>))>>,
      <<Entry(<<"(">>, StrVal(<<"x">>))>> }
FillMaps == SmallMaps \cup ExampleMaps

DraftAlphabet == {"[", "]", "{", "}", "a", " ", "null", "[SYSTEM]", "[user]"}
Message(role, content) ==
    <<"{">> \o Quoted(<<"role">>) \o <<":">> \o Quoted(role) \o <<",">>
            \o Quoted(<<"content">>) \o <<":">> \o Quoted(content) \o <<"}">>
ExampleDrafts ==
    { <<"[">> \o Message(<<"system">>, <<"Use", " ", "{", "{", "ctx", "}", "}">>)
              \o <<",">> \o Message(<<"user">>, <<"{", "{", "q", "}", "}">>)
              \o <<"]">>,
      <<" ", "[">> \o Message(<<"user">>, <<"{", "a", "}">>) \o <<"]">>,
      <<"[">> \o Message(<<>>, <<"a">>) \o <<"]">>,
      <<"[", "{">> \o Quoted(<<"content">>) \o <<":">> \o Quoted(<<"a">>)
                   \o <<"}", "]">>,
      <<"[", "{">> \o Quoted(<<"role">>) \o <<":">> \o Quoted(<<"user">>)
                   \o <<",">> \o Quoted(<<"content">>) \o <<":", "null", "}", "]">>,
      <<"[">> \o Message(<<"user">>, <<"a">>) \o <<",", "null", "]">>,
      <<"[">> \o Message(<<"user">>, <<"[SYSTEM]", "a">>) \o <<",", "null", "]">>,
      <<"[SYSTEM]", " ", "a", " ", "[USER]", " ", "{", "a", "}">>,
      <<"a", "[SYSTEM]", " ", "[USER]">>,
      <<"[system]", " ", "a", " ", "{", "a", "}">>,
      <<"Hello", " ", "{", "{", "name", "}", "}", "!">> }
Drafts == Texts(DraftAlphabet, MaxDraftLen) \cup ExampleDrafts
DraftMaps ==
    { <<>>,
      <<Entry(<<"a">>, StrVal(<<"x">>))>>,
      <<Entry(<<"ctx">>, StrVal(<<"docs">>)), Entry(<<"q">>, StrVal(<<"help">>))>>,
      <<Entry(<<"name">>, StrVal(<<"Ada">>))>>,
      <<Entry(<<"(">>, StrVal(<<"x">>))>> }

(***************************************************************************)
(* The template engine on its own: fillVariables applied to a template,    *)
(* then to its own output.                                                 *)
(***************************************************************************)
InitFill ==
    /\ tpc = "fill"
    /\ template \in FillTemplates
    /\ variables \in FillMaps
    /\ filled = NoFill
    /\ refilled = NoFill
    /\ draftPrompt = <<>>
    /\ filledPrompt = NoPrompt
    /\ ResolverIdle
    /\ RunIdle
    /\ SchemaIdle

Fill ==
    /\ tpc = "fill"
    /\ filled' = fillVariables(template, variables)
    /\ tpc' = "filled"
    /\ UNCHANGED <<template, variables, refilled, draftPrompt, filledPrompt>>
    /\ UNCHANGED <<resolverVars, runVars, schemaVars>>

Refill ==
    /\ tpc = "filled"
    /\ ~filled.thrown
    /\ refilled' = fillVariables(filled.text, variables)
    /\ tpc' = "refilled"
    /\ UNCHANGED <<template, variables, filled, draftPrompt, filledPrompt>>
    /\ UNCHANGED <<resolverVars, runVars, schemaVars>>

NextFill == Fill \/ Refill
SpecFill == InitFill /\ [][NextFill]_vars

(***************************************************************************)
(* The template engine on its own: parseAndFillPrompt applied to a draft.  *)
(***************************************************************************)
InitParse ==
    /\ tpc = "parse"
    /\ draftPrompt \in Drafts
    /\ variables \in DraftMaps
    /\ template = <<>>
    /\ filled = NoFill
    /\ refilled = NoFill
    /\ filledPrompt = NoPrompt
    /\ ResolverIdle
    /\ RunIdle
    /\ SchemaIdle

Parse ==
    /\ tpc = "parse"
    /\ filledPrompt' = parseAndFillPrompt(draftPrompt, variables)
    /\ tpc' = "parsed"
    /\ UNCHANGED <<template, variables, filled, refilled, draftPrompt>>
    /\ UNCHANGED <<resolverVars, runVars, schemaVars>>

NextParse == Parse
SpecParse == InitParse /\ [][NextParse]_vars

(***************************************************************************)
(* Contents of the trace store.                                            *)
(***************************************************************************)
\* most observations the trace store returns for one trace in the model
MaxObs == 2

VarsAX == <<Entry(<<"a">>, StrVal(<<"x">>))>>
VarsBX == <<Entry(<<"b">>, StrVal(<<"x">>))>>
ObjectWith(bag) == [has |-> TRUE, bag |-> bag]

PromptNames == {None, Some(<<"a", "-", "b">>), Some(<<"c", "/", "a", "-", "b">>)}

\* the members an observation's metadata may hold for the matching rules
ObsNames == {None, Some(<<"a", "-", "b">>), Some(<<"A", "b">>), Some(<<"c">>)}
FunctionNames == {<<>>, <<Entry(FunctionNameKey, StrVal(<<"a">>))>>,
                  <<Entry(FunctionNameKey, StrVal(<<"A", "-", "b", "c">>))>>}
MetaPromptNames == {<<>>, <<Entry(PromptNameKey, StrVal(<<"a", "-", "b">>))>>}

\* observations without an id: the store numbers them in fetch order
MatchBodies ==
    {[name |-> n, metadata |-> ObjectWith(f \o p), output |-> StrVal(<<"out">>)] :
        n \in ObsNames, f \in FunctionNames, p \in MetaPromptNames}
CarrierBodies ==
    {[name |-> Some(<<"c">>),
      metadata |-> ObjectWith(<<Entry(PromptVariablesKey, ObjOf(VarsBX))>>),
      output |-> ObjOf(VarsAX)],
     [name |-> None, metadata |-> NoObject, output |-> NullVal]}
ObsBodies == MatchBodies \cup CarrierBodies

WithIds(bodies) ==
    [n \in 1..Len(bodies) |->
        [id |-> n, name |-> bodies[n].name, metadata |-> bodies[n].metadata,
         output |-> bodies[n].output]]
ObservationLists == {WithIds(b) : b \in UNION {[1..n -> ObsBodies] : n \in 0..MaxObs}}

Traces ==
    {NoTrace,
     [metadata |-> ObjectWith(<<Entry(PromptVariablesKey, ObjOf(VarsAX))>>),
      input |-> NoObject],
     [metadata |-> NoObject,
      input |-> ObjectWith(<<Entry(PromptVariablesKey, ObjOf(VarsAX))>>)]}

\* traces and observations for the sources of the variables: every shape of
\* trace.metadata and trace.input the resolver tells apart
VarsCX == <<Entry(<<"c">>, StrVal(<<"x">>))>>
MetadataShapes ==
    {NoObject,
     ObjectWith(<<>>),
     ObjectWith(<<Entry(PromptVariablesKey, ObjOf(VarsAX))>>),
     ObjectWith(<<Entry(PromptVariablesKey, ObjOf(<<>>))>> \o VarsCX),
     ObjectWith(<<Entry(PromptVariablesKey, StrVal(<<"x">>))>>),
     ObjectWith(<<Entry(PromptVariablesKey, ArrVal)>>),
     ObjectWith(<<Entry(PromptVariablesKey, NullVal)>> \o VarsCX),
     ObjectWith(VarsCX),
     ObjectWith(VarsCX \o <<Entry(<<"q">>, ObjVal)>>),
     ObjectWith(VarsCX \o <<Entry(<<"q">>, NumVal)>>)}
InputShapes ==
    {NoObject,
     ObjectWith(VarsCX),
     ObjectWith(<<Entry(PromptVariablesKey, ObjOf(VarsBX))>>),
     ObjectWith(<<Entry(PromptVariablesKey, ObjOf(<<>>))>>),
     ObjectWith(<<Entry(PromptVariablesKey, StrVal(<<"x">>))>>)}
SourceTraces ==
    {[metadata |-> m, input |-> n] : m \in MetadataShapes, n \in InputShapes}
VarsQX == <<Entry(<<"q">>, StrVal(<<"x">>))>>
SourceBodies ==
    {[name |-> Some(<<"a", "-", "b">>), metadata |-> NoObject,
      output |-> StrVal(<<"out">>)],
     [name |-> Some(<<"c">>),
      metadata |-> ObjectWith(<<Entry(PromptVariablesKey, ObjOf(<<>>))>>),
      output |-> StrVal(<<"out">>)],
     [name |-> Some(<<"c">>),
      metadata |-> ObjectWith(<<Entry(PromptVariablesKey, ObjOf(VarsQX))>>),
      output |-> ObjOf(VarsAX)]}
CarrierLists ==
    {WithIds(b) : b \in UNION {[1..n -> SourceBodies] : n \in 0..MaxObs}}

FetchOutcomes == {"ok", "status", "throw"}

(***************************************************************************)
(* The trace resolver on its own: one call of fetchTraceWithVariables.     *)
(***************************************************************************)
InitResolve ==
    /\ rpc = "call"
    /\ \/ /\ trace \in Traces
          /\ stored \in ObservationLists
       \/ /\ trace \in SourceTraces
          /\ stored \in CarrierLists
    /\ originalPromptName \in PromptNames
    /\ credentials \in BOOLEAN
    /\ responses = NoResponses
    /\ observations = <<>>
    /\ resolved = NotFound
    /\ TemplateIdle
    /\ RunIdle
    /\ SchemaIdle

Resolve ==
    /\ rpc = "call"
    /\ \E traceFetch \in FetchOutcomes, obsFetch \in FetchOutcomes :
          /\ observations' = IF credentials /\ traceFetch = "ok" /\ obsFetch = "ok"
                             THEN stored ELSE <<>>
          /\ resolved' = fetchTraceWithVariables(trace, stored, originalPromptName,
                                                 credentials, traceFetch, obsFetch)
          /\ responses' = [traceFetch |-> traceFetch, obsFetch |-> obsFetch]
    /\ rpc' = "returned"
    /\ UNCHANGED <<trace, stored, originalPromptName, credentials>>
    /\ UNCHANGED <<templateVars, runVars, schemaVars>>

NextResolve == Resolve
SpecResolve == InitResolve /\ [][NextResolve]_vars

(***************************************************************************)
(* Per-trace evaluation: runSingleEval.                                    *)
(***************************************************************************)
NoResult ==
    [traceId |-> "", success |-> FALSE, error |-> "", hasLatency |-> FALSE,
     input |-> <<>>, output |-> None, originalProductionOutput |-> None,
     variableSource |-> <<"none">>, promptFormat |-> "none",
     parsed |-> "null"]

\* the early return for traceData === null
NotFoundResult(traceId) ==
    [NoResult EXCEPT !.traceId = traceId,
                     !.error = "No promptVariables found in trace metadata"]

\* the return of the catch block
FailedResult(traceId, message) ==
    [NoResult EXCEPT !.traceId = traceId, !.error = message,
                     !.hasLatency = TRUE]

\* the return at the end of the try block
SuccessResult(traceId, traceData, prompt, output, parsed) ==
    [traceId |-> traceId, success |-> TRUE, error |-> "", hasLatency |-> TRUE,
     input |-> traceData.variables, output |-> output,
     originalProductionOutput |->
         IF TruthyText(traceData.originalOutput) THEN traceData.originalOutput
         ELSE None,
     variableSource |-> traceData.source, promptFormat |-> prompt.format,
     parsed |-> parsed]

\* an error thrown inside the try block of runSingleEval propagates out of the
\* call, which then rejects
OnExceptionRethrow(traceId, message) ==
    [rejected |-> TRUE, result |-> NoResult]

\* an error thrown inside the try block of runSingleEval: the catch block
\* turns it into a failed result, the call resolves
OnException(traceId, message) ==
    [rejected |-> FALSE, result |-> FailedResult(traceId, message)]

(***************************************************************************)
(* Run orchestrator: runTracesEvalFunction.                                *)
(***************************************************************************)
\* concurrency = 10 in the destructuring of event.data
DefaultConcurrency == 10

\* the concurrency the run uses: the default only when the request has none
Concurrency(req) ==
    IF req.concurrency.set THEN req.concurrency.val ELSE DefaultConcurrency

\* the positions that array.slice(start, end) selects from an array of n
\* elements, in order (negative arguments count from the end)
SlicePositions(n, start, end) ==
    LET from == IF start < 0 THEN Max(n + start, 0) ELSE Min(start, n)
        to == IF end < 0 THEN Max(n + end, 0) ELSE Min(end, n)
    IN  [k \in 1..Max(to - from, 0) |-> from + k]

Range(f) == {f[k] : k \in DOMAIN f}

\* the evaluations that have started and not yet returned
InFlight == {s \in DOMAIN ev : ev[s].st \in {"resolving", "calling"}}
\* the provider adapter calls that have not yet returned
CallsInFlight == {s \in DOMAIN ev : ev[s].st = "calling"}

\* the trace store of the model: trace "t1" logs its variables in the trace
\* metadata and has one generation; trace "t2" has a metadata, an input and a
\* generation, and variables in none of them; trace "t3" is as "t1" with a
\* schema in the metadata of its generation
SchemaKey == <<"schema">>
StoreTrace(traceId) ==
    IF traceId \in {"t1", "t3"}
    THEN [metadata |-> ObjectWith(<<Entry(PromptVariablesKey, ObjOf(VarsAX))>>),
          input |-> NoObject]
    ELSE [metadata |-> ObjectWith(<<Entry(<<"q">>, NumVal)>>),
          input |-> ObjectWith(<<Entry(<<"q">>, StrVal(<<"x">>))>>)]
StoreObservations(traceId) ==
    IF traceId = "t1"
    THEN WithIds(<<[name |-> Some(<<"a", "-", "b">>), metadata |-> NoObject,
                    output |-> StrVal(<<"out">>)]>>)
    ELSE IF traceId = "t3"
    THEN WithIds(<<[name |-> Some(<<"a", "-", "b">>),
                    metadata |-> ObjectWith(<<Entry(SchemaKey, ObjVal)>>),
                    output |-> StrVal(<<"out">>)]>>)
    ELSE WithIds(<<[name |-> Some(<<"a", "-", "b">>),
                    metadata |-> ObjectWith(<<Entry(PromptNameKey,
                                                    StrVal(<<"a", "-", "b">>))>>),
                    output |-> StrVal(<<"out">>)]>>)

\* what fetchTraceWithVariables returns to the evaluation at position s
TraceData(s) ==
    fetchTraceWithVariables(StoreTrace(request.traceIds[s]),
                            StoreObservations(request.traceIds[s]),
                            request.originalPromptName, credentials,
                            env[s].traceFetch, env[s].obsFetch)

\* getSchemaFromObservation(obs): whether the observation's metadata holds a
\* schema
getSchemaFromObservation(obs) ==
    /\ obs.metadata.has
    /\ Lookup(obs.metadata.bag, SchemaKey).has
    /\ TruthyVal(Lookup(obs.metadata.bag, SchemaKey).v)

\* traceData.schema of the evaluation at position s: the schema of the
\* observation the trace data is built around
MetadataSchema(s) ==
    LET traceData == TraceData(s)
    IN  /\ traceData.found
        /\ traceData.observation # 0
        /\ getSchemaFromObservation(
               StoreObservations(request.traceIds[s])[traceData.observation])

\* JSON.parse(output) returns, and schema.safeParse of what it returns
\* succeeds, for the kinds of text a provider answers with
ParsesAsJson(text) == text \in {"valid", "mismatch"}
SafeParses(text) == text = "valid"

\* the parsed value of the result: "adapter" is response.parsed of the chat
\* adapter, "data" the result.data of schema.safeParse
Parsed(provider, schema, response) ==
    IF provider = "openai"
    THEN (IF response.parsed THEN "adapter" ELSE "null")
    ELSE IF provider = "gemini" /\ schema /\ ParsesAsJson(response.text)
            /\ SafeParses(response.text)
    THEN "data"
    ELSE "null"

\* observationLookup.get(traceId): the output of the last pair of the request
\* with this trace id, undefined without such a pair
observationLookup(pairs, traceId) ==
    LET hits == {n \in 1..Len(pairs) : pairs[n].traceId = traceId}
    IN  IF hits = {} THEN NoVal
        ELSE pairs[CHOOSE n \in hits : \A m \in hits : m <= n].output

\* options.originalOutput of the evaluation at position s
ProvidedOutput(s) ==
    observationLookup(request.traceObservationPairs, request.traceIds[s])

\* the trace data with originalProductionOutput for its original output: the
\* provided output when it is truthy (as it is when a string, serialized
\* otherwise), the output resolved from the trace store when it is not
WithProvidedOutput(traceData, provided) ==
    [traceData EXCEPT !.originalOutput =
        IF provided.has /\ TruthyVal(provided.v)
        THEN Some(IF provided.v.t = "str" THEN provided.v.s
                  ELSE Stringify(provided.v))
        ELSE traceData.originalOutput]

\* the evaluations of a batch writing their outcome to one shared variable:
\* the outcome of s replaces the result of every evaluation of its batch that
\* has returned
SettleShared(s, outcome) ==
    [t \in DOMAIN ev |->
        IF t = s
        THEN [ev[t] EXCEPT !.st = IF outcome.rejected THEN "rejected" ELSE "done",
                           !.result = outcome.result]
        ELSE IF ev[t].batch = ev[s].batch /\ ev[t].st = "done"
        THEN [ev[t] EXCEPT !.result = outcome.result]
        ELSE ev[t]]

\* the evaluation at position s returns or rejects: only its own slot changes
Settle(s, outcome) ==
    [ev EXCEPT ![s].st = IF outcome.rejected THEN "rejected" ELSE "done",
               ![s].result = outcome.result]

Resolved(result) == [rejected |-> FALSE, result |-> result]

\* const evalId = uuidv4(): the id after `drawn` ids, each one new
uuidv4(drawn) == drawn + 1

\* the scheduler executes the function body once per step that runs: the
\* steps that ran before return their saved output, the code outside the
\* steps runs again, and with it the draw of evalId
Reenter == evalId' = uuidv4(evalId)

\* getLangfuse(): the client, present when the keys are set
HasLangfuse == credentials

\* step 'create-eval-trace'
CreateEvalTrace ==
    /\ pc = "create-eval-trace"
    /\ record' = IF HasLangfuse
                 THEN [NoRecord EXCEPT !.created = TRUE, !.evalId = evalId]
                 ELSE record
    /\ Reenter
    /\ pc' = "run-evaluations"
    /\ UNCHANGED <<request, env, i, batchNo, batch, ev, allResults, evalResult,
                   returned, blobKeys, attempts>>
    /\ UNCHANGED <<templateVars, resolverVars, schemaVars>>

\* one iteration of the batch loop up to its await: the slice, and the
\* synchronous start of runSingleEval for every trace id of the batch
StartBatch ==
    /\ pc = "run-evaluations"
    /\ i < Len(request.traceIds)
    /\ LET b == SlicePositions(Len(request.traceIds), i, i + Concurrency(request))
       IN  /\ batch' = b
           /\ ev' = [s \in DOMAIN ev |->
                        IF s \in Range(b)
                        THEN [st |-> "resolving", batch |-> batchNo + 1,
                              calls |-> 0, result |-> NoResult]
                        ELSE ev[s]]
    /\ batchNo' = Min(batchNo + 1, MaxBatches)
    /\ pc' = "await-batch"
    /\ UNCHANGED <<request, env, i, allResults, evalResult, returned, stepVars>>
    /\ UNCHANGED <<templateVars, resolverVars, schemaVars>>

\* runSingleEval at position s: fetchTraceWithVariables has returned; the
\* code runs on to the provider call, or to a return
ResolveReturn(s) ==
    /\ pc = "await-batch"
    /\ ev[s].st = "resolving"
    /\ LET traceId == request.traceIds[s]
           traceData == TraceData(s)
           prompt == parseAndFillPrompt(request.draftPrompt, traceData.variables)
       IN  ev' = IF ~traceData.found
                 THEN Settle(s, Resolved(NotFoundResult(traceId)))
                 ELSE IF prompt.thrown
                 THEN Settle(s, OnException(traceId, "Invalid regular expression"))
                 ELSE IF request.provider \in {"openai", "gemini"}
                 THEN [ev EXCEPT ![s].st = "calling", ![s].calls = @ + 1]
                 ELSE Settle(s, Resolved(SuccessResult(
                          traceId, WithProvidedOutput(traceData, ProvidedOutput(s)),
                          prompt, None, "null")))
    /\ UNCHANGED <<request, env, pc, i, batchNo, batch, allResults, evalResult,
                   returned, stepVars>>
    /\ UNCHANGED <<templateVars, resolverVars, schemaVars>>

\* runSingleEval at position s: the provider adapter has returned or thrown
ProviderReturn(s) ==
    /\ pc = "await-batch"
    /\ ev[s].st = "calling"
    /\ LET traceId == request.traceIds[s]
           traceData == TraceData(s)
           prompt == parseAndFillPrompt(request.draftPrompt, traceData.variables)
       IN  ev' = IF env[s].provider = "throws"
                 THEN Settle(s, OnException(traceId, "provider error"))
                 ELSE Settle(s, Resolved(SuccessResult(
                          traceId, WithProvidedOutput(traceData, ProvidedOutput(s)),
                          prompt, Some(<<"answer">>),
                          Parsed(request.provider, MetadataSchema(s), env[s]))))
    /\ UNCHANGED <<request, env, pc, i, batchNo, batch, allResults, evalResult,
                   returned, stepVars>>
    /\ UNCHANGED <<templateVars, resolverVars, schemaVars>>

\* i += concurrency for a list of n ids. An index at or below -n selects no
\* id and stays below n whatever is added to it again, so that the model keeps
\* an index that goes down at -n
Advance(index, concurrency, n) == Max(index + concurrency, 0 - n)

\* the results of the batch kept by trace id: one result for each trace id
\* of the batch, at the place of its first occurrence
BatchResultsByTraceId(b) ==
    LET first == {k \in DOMAIN b :
                     \A j \in DOMAIN b :
                         request.traceIds[b[j]] = request.traceIds[b[k]] => k <= j}
        place(n) == CHOOSE k \in first : Cardinality({j \in first : j <= k}) = n
    IN  [n \in 1..Cardinality(first) |-> ev[b[place(n)]].result]

\* the results of the batch in the order of the batch
BatchResults(b) == [k \in DOMAIN b |-> ev[b[k]].result]

\* await Promise.all(...) of the batch: it rejects when an evaluation has
\* rejected, and the step fails; it resolves when all have returned, and the
\* loop pushes the results and advances
JoinBatch ==
    /\ pc = "await-batch"
    /\ IF \E s \in Range(batch) : ev[s].st = "rejected"
       THEN /\ pc' = "failed"
            /\ UNCHANGED <<i, allResults>>
       ELSE /\ \A s \in Range(batch) : ev[s].st = "done"
            /\ allResults' = allResults \o BatchResults(batch)
            /\ i' = Advance(i, Concurrency(request), Len(request.traceIds))
            /\ pc' = "run-evaluations"
    /\ UNCHANGED <<request, env, batchNo, batch, ev, evalResult, returned,
                   stepVars>>
    /\ UNCHANGED <<templateVars, resolverVars, schemaVars>>

\* a count that leaves out the results without a latency
CountWhereTimed(results, wanted) ==
    Cardinality({k \in DOMAIN results :
                    results[k].success = wanted /\ results[k].hasLatency})

\* results.filter((r) => r.success).length and its negation
CountWhere(results, wanted) ==
    Cardinality({k \in DOMAIN results : results[k].success = wanted})

\* the loop is over: the step returns allResults; the body runs again and
\* calculates the summary with the evalId of that execution
Summarize ==
    /\ pc = "run-evaluations"
    /\ ~(i < Len(request.traceIds))
    /\ Reenter
    /\ evalResult' = [evalId |-> evalId',
                      totalTraces |-> Len(request.traceIds),
                      successCount |-> CountWhere(allResults, TRUE),
                      failureCount |-> CountWhere(allResults, FALSE),
                      results |-> allResults,
                      resultsUrl |-> None]
    /\ pc' = "store-results-blob"
    /\ UNCHANGED <<request, env, i, batchNo, batch, ev, allResults, returned,
                   record, blobKeys, attempts>>
    /\ UNCHANGED <<templateVars, resolverVars, schemaVars>>

\* storeDataInBlob(key, payload) of the blob store, put(key, value) -> url:
\* the write returns the url, or it fails and the call throws
storeDataInBlob == {"url", "throws"}

\* step 'store-results-blob': storeDataInBlob is called with the key of this
\* execution's evalId; it returns the url, or it throws, nothing catches it
\* and the step fails: the scheduler runs the step again, or gives the run up
StoreResultsBlob ==
    /\ pc = "store-results-blob"
    /\ blobKeys' = blobKeys \cup {evalId}
    /\ \E put \in storeDataInBlob :
          IF put = "url"
          THEN /\ Reenter
               /\ evalResult' = [evalResult EXCEPT !.evalId = evalId',
                                                   !.resultsUrl = Some(<<"url">>)]
               /\ pc' = "update-eval-trace"
               /\ UNCHANGED attempts
          ELSE /\ attempts' = attempts + 1
               /\ IF attempts' < MaxAttempts
                  THEN /\ Reenter
                       /\ evalResult' = [evalResult EXCEPT !.evalId = evalId']
                       /\ UNCHANGED pc
                  ELSE /\ pc' = "failed"
                       /\ UNCHANGED <<evalId, evalResult>>
    /\ UNCHANGED <<request, env, i, batchNo, batch, ev, allResults, returned,
                   record>>
    /\ UNCHANGED <<templateVars, resolverVars, schemaVars>>

\* step 'update-eval-trace' without the await of the flush: the step ends
\* with the update of the trace
UpdateEvalTraceUnflushed ==
    /\ pc = "update-eval-trace"
    /\ record' = IF HasLangfuse
                 THEN [record EXCEPT !.completed = TRUE,
                                     !.resultsUrl = evalResult.resultsUrl]
                 ELSE record
    /\ Reenter
    /\ evalResult' = [evalResult EXCEPT !.evalId = evalId']
    /\ pc' = "return"
    /\ UNCHANGED <<request, env, i, batchNo, batch, ev, allResults, returned,
                   blobKeys, attempts>>
    /\ UNCHANGED <<templateVars, resolverVars, schemaVars>>

\* step 'update-eval-trace' up to its await: the trace of the run gets the
\* counters and the results url
UpdateEvalTrace ==
    /\ pc = "update-eval-trace"
    /\ record' = IF HasLangfuse
                 THEN [record EXCEPT !.completed = TRUE,
                                     !.resultsUrl = evalResult.resultsUrl]
                 ELSE record
    /\ pc' = "flush"
    /\ UNCHANGED <<request, env, i, batchNo, batch, ev, allResults, evalResult,
                   returned, evalId, blobKeys, attempts>>
    /\ UNCHANGED <<templateVars, resolverVars, schemaVars>>

\* await langfuse?.flushAsync() ends, and the step with it
FlushAsync ==
    /\ pc = "flush"
    /\ record' = IF HasLangfuse THEN [record EXCEPT !.flushed = TRUE]
                 ELSE record
    /\ Reenter
    /\ evalResult' = [evalResult EXCEPT !.evalId = evalId']
    /\ pc' = "return"
    /\ UNCHANGED <<request, env, i, batchNo, batch, ev, allResults, returned,
                   blobKeys, attempts>>
    /\ UNCHANGED <<templateVars, resolverVars, schemaVars>>

\* return evalResult
Return ==
    /\ pc = "return"
    /\ returned' = [done |-> TRUE, value |-> evalResult]
    /\ pc' = "returned"
    /\ UNCHANGED <<request, env, i, batchNo, batch, ev, allResults, evalResult,
                   stepVars>>
    /\ UNCHANGED <<templateVars, resolverVars, schemaVars>>

(***************************************************************************)
(* Requests and collaborator behaviour of the runs of the model.           *)
(***************************************************************************)
TraceIds == {"t1", "t2"}
EnvKinds ==
    {[traceFetch |-> "ok", obsFetch |-> "ok", provider |-> "returns",
      text |-> "valid", parsed |-> FALSE],
     [traceFetch |-> "ok", obsFetch |-> "ok", provider |-> "throws",
      text |-> "valid", parsed |-> FALSE]}

\* the answers of a provider to a request with a schema: a text that
\* satisfies the schema, one that is JSON and does not satisfy it, one that
\* is not JSON; the chat adapter answers a text that is JSON with or without
\* a parsed value
SchemaTraceId == "t3"
SchemaEnvKinds ==
    {[traceFetch |-> "ok", obsFetch |-> "ok", provider |-> "returns",
      text |-> t, parsed |-> p] :
        t \in {"valid", "mismatch"}, p \in BOOLEAN}
    \cup {[traceFetch |-> "ok", obsFetch |-> "ok", provider |-> "returns",
            text |-> "notjson", parsed |-> FALSE]}
RunDraft == <<"Hello", " ", "{", "{", "a", "}", "}">>
RunPromptName == Some(<<"a", "-", "b">>)

RequestOf(ids, provider, concurrency) ==
    [draftPrompt |-> RunDraft, traceIds |-> ids, provider |-> provider,
     originalPromptName |-> RunPromptName, concurrency |-> concurrency,
     traceObservationPairs |-> <<>>]

\* the pairs of a request: a stored output 'sup', an empty stored output, an
\* object as the stored output, and a pair for the trace without variables
Pair(traceId, output) == [traceId |-> traceId, output |-> output]
SuppliedOutput == <<"sup">>
PairLists ==
    {<<Pair("t1", SomeVal(StrVal(SuppliedOutput)))>>,
     <<Pair("t1", SomeVal(StrVal(<<>>)))>>,
     <<Pair("t1", SomeVal(ObjOf(VarsAX))), Pair("t2", SomeVal(StrVal(SuppliedOutput)))>>,
     <<Pair("t2", NoVal)>>}

SmallRequests ==
    {RequestOf(ids, "openai", c) :
        ids \in Texts(TraceIds, MaxTraces),
        c \in {Unset, Given(-1), Given(0), Given(1), Given(2)}}
    \cup {RequestOf(ids, p, Unset) :
        ids \in Texts(TraceIds, MaxTraces), p \in {"gemini", "other"}}
    \cup {[RequestOf(ids, "openai", Unset) EXCEPT !.traceObservationPairs = pairs] :
        ids \in Texts(TraceIds, MaxTraces), pairs \in PairLists}

SchemaRequests ==
    {RequestOf(ids, p, Unset) :
        ids \in {<<SchemaTraceId>>, <<SchemaTraceId, "t1">>},
        p \in {"openai", "gemini"}}

\* a run of many traces: the ids alternate, every seventh trace fetch answers
\* with an error status, every fifth provider call throws
ManyIds == [k \in 1..ManyTraces |-> IF k % 2 = 1 THEN "t1" ELSE "t2"]
ManyEnv ==
    [k \in 1..ManyTraces |->
        [traceFetch |-> IF k % 7 = 3 THEN "status" ELSE "ok", obsFetch |-> "ok",
         provider |-> IF k % 5 = 1 THEN "throws" ELSE "returns",
         text |-> "valid", parsed |-> FALSE]]

InitRun ==
    /\ \/ /\ request \in SmallRequests
          /\ env \in [1..Len(request.traceIds) -> EnvKinds]
          /\ credentials \in BOOLEAN
       \/ /\ request = RequestOf(ManyIds, "openai", Unset)
          /\ env = ManyEnv
          /\ credentials = TRUE
       \/ /\ request \in SchemaRequests
          /\ env \in [1..Len(request.traceIds) -> SchemaEnvKinds]
          /\ credentials = TRUE
    /\ pc = "create-eval-trace"
    /\ i = 0
    /\ batchNo = 0
    /\ batch = <<>>
    /\ ev = [s \in 1..Len(request.traceIds) |->
                [st |-> "idle", batch |-> 0, calls |-> 0, result |-> NoResult]]
    /\ allResults = <<>>
    /\ evalResult = NoEvalResult
    /\ returned = NoReturn
    /\ evalId = uuidv4(0)
    /\ record = NoRecord
    /\ blobKeys = {}
    /\ attempts = 0
    /\ SchemaIdle
    /\ TemplateIdle
    /\ rpc = "idle"
    /\ trace = NoTrace
    /\ stored = <<>>
    /\ originalPromptName = None
    /\ responses = NoResponses
    /\ observations = <<>>
    /\ resolved = NotFound

Next ==
    \/ CreateEvalTrace
    \/ StartBatch
    \/ \E s \in DOMAIN ev : ResolveReturn(s)
    \/ \E s \in DOMAIN ev : ProviderReturn(s)
    \/ JoinBatch
    \/ Summarize
    \/ StoreResultsBlob
    \/ UpdateEvalTrace
    \/ FlushAsync
    \/ Return

Spec == InitRun /\ [][Next]_vars

\* the runs in which every call that was started returns or throws, and the
\* scheduler executes every step that is due
CallsReturn ==
    []<>(\A s \in DOMAIN ev : ev[s].st \notin {"resolving", "calling"})
StepsRun ==
    /\ WF_vars(CreateEvalTrace)
    /\ WF_vars(StartBatch)
    /\ WF_vars(JoinBatch)
    /\ WF_vars(Summarize)
    /\ WF_vars(StoreResultsBlob)
    /\ WF_vars(UpdateEvalTrace)
    /\ WF_vars(FlushAsync)
    /\ WF_vars(Return)
SpecFair == Spec /\ StepsRun /\ CallsReturn

(***************************************************************************)
(* Calls of zodToGeminiSchema with an object schema.                       *)
(***************************************************************************)
FieldKeys == {<<"a">>, <<"b">>, <<"c">>}
FieldTypes ==
    {ZodString, ZodNumber, ZodBoolean, ZodEnum(<<<<"x">>, <<"y">>>>), ZodDate,
     ZodLiteral(StrVal(<<"x">>)), ZodLiteral(NumVal), ZodLiteral(BoolVal),
     ZodUnion(<<ZodLiteral(StrVal(<<"x">>)), ZodLiteral(StrVal(<<"y">>))>>),
     ZodArray(ZodOptional(ZodString)),
     ZodObject(<<Field(<<"a">>, ZodOptional(ZodString))>>),
     ZodObject(<<Field(<<"a">>, ZodNumber)>>),
     ZodOptional(ZodString), ZodDefault(ZodNumber), ZodNullable(ZodString),
     ZodNullable(ZodOptional(ZodString)), ZodOptional(ZodNullable(ZodString)),
     ZodDefault(ZodArray(ZodString)), ZodEffects(ZodString),
     ZodUnion(<<ZodString, ZodNumber>>),
     ZodUnion(<<ZodNumber, ZodOptional(ZodString)>>),
     describe(ZodString, <<"d">>), describe(ZodOptional(ZodString), <<"d">>)}

\* the shapes of up to MaxFields fields with keys of their own
Shapes ==
    {shape \in UNION {[1..n -> [key : FieldKeys, value : FieldTypes]] :
                          n \in 0..MaxFields} :
        \A m, n \in 1..Len(shape) : shape[m].key = shape[n].key => m = n}

InitSchema ==
    /\ spc = "called"
    /\ zodSchema \in {ZodObject(shape) : shape \in Shapes}
    /\ geminiSchema = NoSchema
    /\ TemplateIdle
    /\ ResolverIdle
    /\ RunIdle

Translate ==
    /\ spc = "called"
    /\ geminiSchema' = zodToGeminiSchema(zodSchema)
    /\ spc' = "returned"
    /\ UNCHANGED zodSchema
    /\ UNCHANGED <<templateVars, resolverVars, runVars>>

SpecSchema == InitSchema /\ [][Translate]_vars

(***************************************************************************)
(* Properties of the trace resolver.                                       *)
(***************************************************************************)
\* the call returned variables found at trace level, so that the observation
\* of the result is the one findMatchingObservation() chose
MatchedAtTraceLevel ==
    /\ rpc = "returned"
    /\ resolved.found
    /\ resolved.source \in {<<"trace:metadata">>, <<"trace:input">>}

SomeObs(Rule(_, _)) ==
    \E n \in 1..Len(observations) : Rule(observations[n], originalPromptName.s)

ChosenBy(Rule(_, _)) ==
    /\ resolved.observation \in 1..Len(observations)
    /\ Rule(observations[resolved.observation], originalPromptName.s)

\* C10: the observation chosen for a prompt name matches by the strongest
\* rule that any fetched observation matches (exact name, then normalized
\* name, then function-name metadata, then metadata prompt name), wherever
\* it stands in the list; without a prompt name or without any match the
\* first fetched observation is chosen, and none when the list is empty.
ObservationMatchPriority ==
    MatchedAtTraceLevel =>
        IF Len(observations) = 0 THEN resolved.observation = 0
        ELSE IF ~TruthyText(originalPromptName) THEN resolved.observation = 1
        ELSE IF SomeObs(ExactMatch) THEN ChosenBy(ExactMatch)
        ELSE IF SomeObs(NormalizedMatch) THEN ChosenBy(NormalizedMatch)
        ELSE IF SomeObs(FunctionNameMatch) THEN ChosenBy(FunctionNameMatch)
        ELSE IF SomeObs(MetadataMatch) THEN ChosenBy(MetadataMatch)
        ELSE resolved.observation = 1

\* an observation that matches only by normalized name stands before the
\* one that matches exactly, and the exact one is chosen
ExactBeatsEarlierNormalized ==
    /\ MatchedAtTraceLevel
    /\ Len(observations) = 2
    /\ TruthyText(originalPromptName)
    /\ NormalizedMatch(observations[1], originalPromptName.s)
    /\ ~ExactMatch(observations[1], originalPromptName.s)
    /\ ExactMatch(observations[2], originalPromptName.s)
    /\ resolved.observation = 2

(***************************************************************************)
(* Properties of the run orchestrator.                                     *)
(***************************************************************************)
AfterLoop == {"store-results-blob", "update-eval-trace", "returned"}

\* C1: the EvalRunResult a run returns has successCount + failureCount equal
\* to totalTraces, and totalTraces is the length of the submitted trace id
\* list, whatever the outcomes of the traces were.
CountsSumToTotal ==
    returned.done =>
        /\ returned.value.totalTraces = Len(request.traceIds)
        /\ returned.value.successCount + returned.value.failureCount
               = returned.value.totalTraces

\* a returned run that had a success, a trace without variables and a
\* provider exception
MixedOutcomesReturned ==
    /\ returned.done
    /\ returned.value.successCount > 0
    /\ \E k \in DOMAIN returned.value.results :
          /\ ~returned.value.results[k].success
          /\ ~returned.value.results[k].hasLatency
    /\ \E k \in DOMAIN returned.value.results :
          returned.value.results[k].error = "provider error"

\* Math.ceil(n / d) for an integer d other than 0
Ceiling(n, d) == IF d > 0 THEN (n + d - 1) \div d ELSE -(n \div (-d))

\* C2: the list of N trace ids is processed in exactly ceil(N/limit) batches,
\* one after the other: a batch that starts is one of that many, the loop
\* ends with that many, every id has then been evaluated, and the
\* evaluations in flight all belong to the latest batch while those of the
\* earlier batches have returned.
CeilingBatchesInSequence ==
    LET limit == Concurrency(request)
        N == Len(request.traceIds)
    IN  /\ batchNo >= 1 => limit # 0 /\ batchNo <= Ceiling(N, limit)
        /\ pc \in AfterLoop /\ limit # 0 => batchNo = Ceiling(N, limit)
        /\ pc \in AfterLoop => \A s \in DOMAIN ev : ev[s].st = "done"
        /\ \A s \in InFlight : ev[s].batch = batchNo
        /\ \A s \in DOMAIN ev :
              ev[s].batch \in 1..(batchNo - 1) => ev[s].st = "done"

\* C3: at every moment the evaluations in flight, and so the provider calls
\* in flight, number at most the concurrency limit of the run (10 when the
\* request has none).
InFlightWithinLimit ==
    InFlight # {} =>
        /\ Cardinality(InFlight) <= Concurrency(request)
        /\ Cardinality(CallsInFlight) <= Concurrency(request)

\* the evaluation at position s fails by itself: its trace resolves to no
\* variables, or its prompt cannot be filled, or its provider call throws
OwnFailure(s) ==
    \/ ~TraceData(s).found
    \/ parseAndFillPrompt(request.draftPrompt, TraceData(s).variables).thrown
    \/ /\ request.provider \in {"openai", "gemini"}
       /\ env[s].provider = "throws"

\* the batch is joined: every evaluation of the batch has its result in the
\* list, in place, failed exactly when it failed by itself, and the loop goes on
BatchCollected ==
    /\ pc' = "run-evaluations"
    /\ Len(allResults') = Len(allResults) + Len(batch)
    /\ \A k \in DOMAIN batch :
          LET r == allResults'[Len(allResults) + k]
          IN  /\ r.traceId = request.traceIds[batch[k]]
              /\ r.success = ~OwnFailure(batch[k])

\* C4: a trace whose resolution fails or whose provider call throws gets a
\* result with success = false, and no other trace does: no evaluation
\* rejects, the join of a batch collects a result for every trace of the
\* batch and the loop goes on to the next batch, and the run fails only
\* after the aggregation, in a later step.
FailureIsolation ==
    /\ [](\A s \in DOMAIN ev :
             /\ ev[s].st # "rejected"
             /\ ev[s].st = "done" => ev[s].result.success = ~OwnFailure(s))
    /\ [](pc = "failed" => evalResult.totalTraces = Len(request.traceIds))
    /\ [][pc = "await-batch" /\ pc' # "await-batch" => BatchCollected]_vars

\* a run that went on to a second batch and to the aggregation after a batch
\* with a success, a trace without variables and a provider exception
AggregatedAfterFailures ==
    /\ pc = "store-results-blob"
    /\ batchNo >= 2
    /\ \E k1, k2, k3 \in DOMAIN allResults :
          /\ \A k \in {k1, k2, k3} : ev[k].batch = 1
          /\ allResults[k1].success
          /\ allResults[k2].error = "provider error"
          /\ ~allResults[k3].success /\ ~allResults[k3].hasLatency

\* the result of the evaluation at position s as a function of its own trace
\* id, the request and the responses of its own collaborators
OwnResult(s) ==
    LET traceId == request.traceIds[s]
        traceData == TraceData(s)
        prompt == parseAndFillPrompt(request.draftPrompt, traceData.variables)
        called == request.provider \in {"openai", "gemini"}
    IN  IF ~traceData.found THEN NotFoundResult(traceId)
        ELSE IF prompt.thrown
        THEN FailedResult(traceId, "Invalid regular expression")
        ELSE IF called /\ env[s].provider = "throws"
        THEN FailedResult(traceId, "provider error")
        ELSE SuccessResult(traceId,
                           WithProvidedOutput(traceData, ProvidedOutput(s)), prompt,
                           IF called THEN Some(<<"answer">>) ELSE None,
                           IF called
                           THEN Parsed(request.provider, MetadataSchema(s), env[s])
                           ELSE "null")

\* C5: the result of a trace depends on its own inputs and collaborator
\* responses only, so the result list is the same in every interleaving of
\* the evaluations of a batch: each returned evaluation holds, and each
\* place of the list holds, the result that is a function of that trace alone.
ResultsIndependentOfInterleaving ==
    /\ \A s \in DOMAIN ev : ev[s].st = "done" => ev[s].result = OwnResult(s)
    /\ \A k \in DOMAIN allResults : allResults[k] = OwnResult(k)
    /\ returned.done => returned.value.results = allResults

\* a later evaluation of a batch has returned a failure while an earlier one,
\* which will succeed, is still calling its provider
LaterFinishedFirst ==
    \E s1, s2 \in DOMAIN ev :
        /\ s1 < s2
        /\ ev[s1].batch = ev[s2].batch
        /\ ev[s1].st = "calling" /\ ~OwnFailure(s1)
        /\ ev[s2].st = "done" /\ ~ev[s2].result.success

(***************************************************************************)
(* Properties of the template engine.                                      *)
(***************************************************************************)
\* C6: the text fillVariables returns holds no {word} and no {{word}}, word
\* made of letters, digits, hyphens and underscores, for every template and
\* every variable mapping.
NoLeftoverPlaceholders ==
    tpc \in {"filled", "refilled"} /\ ~filled.thrown
        => ~HasPlaceholder(filled.text)

\* C7: fillVariables applied with the same variables to the text it returned
\* returns that text again.
FillIsIdempotent ==
    tpc = "refilled" => ~refilled.thrown /\ refilled.text = filled.text

\* the draft is a JSON array whose first element has no role or no string
\* content
FirstElementLacksRoleOrContent ==
    LET parsed == JSONparse(draftPrompt)
    IN  /\ StartsWithBracket(draftPrompt)
        /\ parsed.ok
        /\ parsed.v.t = "arr"
        /\ Len(parsed.v.items) > 0
        /\ \/ parsed.v.items[1].t # "obj"
           \/ ~Truthy(Member(parsed.v.items[1], <<"role">>))
           \/ ~ContentIsString(parsed.v.items[1])

\* C8: parseAndFillPrompt returns for every draft and every variable mapping,
\* without raising, a prompt of exactly one of the formats json, text-markers
\* and plain; the empty draft gives the empty plain text, and a JSON array
\* whose first element lacks a role or a string content is not json.
ParseAndFillIsTotal ==
    tpc = "parsed" =>
        /\ ~filledPrompt.thrown
        /\ filledPrompt.format \in {"json", "text-markers", "plain"}
        /\ draftPrompt = <<>> =>
               filledPrompt.format = "plain" /\ filledPrompt.text = <<>>
        /\ FirstElementLacksRoleOrContent =>
               filledPrompt.format \in {"text-markers", "plain"}

HyphenSwap(key) == SwapChar(key, "_", "-")
UnderscoreSwap(key) == SwapChar(key, "-", "_")
Plain(text) == \A n \in 1..Len(text) : text[n] \notin {"{", "}", "$"}

\* C9: a template that is one placeholder, {k'} or {{k'}}, with k' the
\* hyphen-for-underscore or underscore-for-hyphen spelling of the one key k
\* of the variables, is filled with the value of k.
SwappedSpellingFilled ==
    /\ tpc \in {"filled", "refilled"}
    /\ Len(variables) = 1
    /\ variables[1].v.t = "str"
    /\ Plain(variables[1].v.s)
    /\ \E swapped \in {HyphenSwap(variables[1].k), UnderscoreSwap(variables[1].k)} :
          /\ swapped # variables[1].k
          /\ template \in {Braced1(swapped), Braced2(swapped)}
    => ~filled.thrown /\ filled.text = variables[1].v.s

\* {{a_b}} filled from the key a-b
UnderscorePlaceholderFilledFromHyphenKey ==
    /\ tpc = "filled"
    /\ template = Braced2(<<"a", "_", "b">>)
    /\ variables = <<Entry(<<"a", "-", "b">>, StrVal(<<"x">>))>>
    /\ filled.text = <<"x">>

(***************************************************************************)
(* Properties of the variable resolution.                                  *)
(***************************************************************************)
\* the call went through: the keys are set and both fetches answered ok
Fetched ==
    /\ rpc = "returned"
    /\ credentials
    /\ responses = [traceFetch |-> "ok", obsFetch |-> "ok"]

\* the variables a value holds when it is an object of variables
VariablesObject(m) == IF m.has /\ IsObjectType(m.v) THEN m.v.bag ELSE <<>>

\* source (1): the nested variables object of the trace metadata
NestedVariables ==
    IF trace.metadata.has
    THEN VariablesObject(Lookup(trace.metadata.bag, PromptVariablesKey))
    ELSE <<>>

\* source (2): the trace metadata itself, when it has no nested variables
\* field and all its values are strings or objects
FlatVariables ==
    IF /\ trace.metadata.has
       /\ ~Lookup(trace.metadata.bag, PromptVariablesKey).has
       /\ \A n \in 1..Len(trace.metadata.bag) :
             \/ trace.metadata.bag[n].v.t = "str"
             \/ IsObjectType(trace.metadata.bag[n].v)
    THEN trace.metadata.bag
    ELSE <<>>

\* source (3): the variables object of the trace input
InputVariables ==
    IF trace.input.has
    THEN VariablesObject(Lookup(trace.input.bag, PromptVariablesKey))
    ELSE <<>>

\* source (4): the variables object of the observation at place n
ObservationVariables(n) ==
    IF stored[n].metadata.has
    THEN VariablesObject(Lookup(stored[n].metadata.bag, PromptVariablesKey))
    ELSE <<>>

FirstCarrier ==
    FindFirst({n \in 1..Len(stored) : ObservationVariables(n) # <<>>})

\* the result has these variables and this provenance tag
ResolvedFrom(bag, tag) ==
    resolved.found /\ resolved.variables = bag /\ resolved.source = tag

\* C11: the variables come from the first non-empty source in the order
\* nested variables of the trace metadata, flat trace metadata without a
\* nested variables field, variables of the trace input, first observation
\* in fetch order with variables; the provenance tag names that path; with
\* every source empty the trace is not found.
FirstNonEmptySourceWins ==
    Fetched =>
        IF NestedVariables # <<>>
        THEN ResolvedFrom(NestedVariables, <<"trace:metadata">>)
        ELSE IF FlatVariables # <<>>
        THEN ResolvedFrom(FlatVariables, <<"trace:metadata">>)
        ELSE IF InputVariables # <<>>
        THEN ResolvedFrom(InputVariables, <<"trace:input">>)
        ELSE IF FirstCarrier # 0
        THEN ResolvedFrom(ObservationVariables(FirstCarrier),
                          <<"observation", stored[FirstCarrier].id>>)
        ELSE ~resolved.found

\* C12: promptVariables are looked up in trace.metadata.promptVariables, then
\* in trace.input.promptVariables, then in observation.metadata.promptVariables:
\* a trace whose metadata has none and whose input has some gets the
\* variables of its input.
PromptVariablesLookupOrder ==
    Fetched =>
        IF NestedVariables # <<>>
        THEN ResolvedFrom(NestedVariables, <<"trace:metadata">>)
        ELSE IF InputVariables # <<>>
        THEN ResolvedFrom(InputVariables, <<"trace:input">>)
        ELSE FirstCarrier # 0 =>
                 ResolvedFrom(ObservationVariables(FirstCarrier),
                              <<"observation", stored[FirstCarrier].id>>)

\* the trace and its observations hold variables nowhere: not nested in the
\* metadata, not as the metadata itself, not in the input, in no observation
NoVariablesAnywhere(tr, obsList) ==
    /\ \/ ~tr.metadata.has
       \/ /\ VariablesObject(Lookup(tr.metadata.bag, PromptVariablesKey)) = <<>>
          /\ \/ tr.metadata.bag = <<>>
             \/ \E n \in 1..Len(tr.metadata.bag) :
                   /\ tr.metadata.bag[n].v.t # "str"
                   /\ ~IsObjectType(tr.metadata.bag[n].v)
    /\ \/ ~tr.input.has
       \/ VariablesObject(Lookup(tr.input.bag, PromptVariablesKey)) = <<>>
    /\ \A n \in 1..Len(obsList) :
          \/ ~obsList[n].metadata.has
          \/ VariablesObject(Lookup(obsList[n].metadata.bag,
                                    PromptVariablesKey)) = <<>>

WithoutVariables(s) ==
    NoVariablesAnywhere(StoreTrace(request.traceIds[s]),
                        StoreObservations(request.traceIds[s]))

\* the collaborators of position s answer: the keys are set, the fetches are
\* ok, the provider returns
Answered(s) ==
    /\ credentials
    /\ env[s].traceFetch = "ok" /\ env[s].obsFetch = "ok"
    /\ env[s].provider = "returns"

\* C13: a trace with variables nowhere gets a result with success = false
\* and a non-empty error message, and the result of every other trace of the
\* run, its collaborators answering, still has success = true.
NotFoundFailsAlone ==
    \A s \in DOMAIN ev :
        ev[s].st = "done" =>
            IF WithoutVariables(s)
            THEN ~ev[s].result.success /\ ev[s].result.error # ""
            ELSE Answered(s) => ev[s].result.success

\* a run returned both: the result of a trace without variables and the
\* successful result of another trace, evaluated in the same batch
NotFoundBesideSuccess ==
    /\ returned.done
    /\ \E s1, s2 \in DOMAIN ev :
          /\ ev[s1].batch = ev[s2].batch
          /\ WithoutVariables(s1) /\ ~returned.value.results[s1].success
          /\ ~WithoutVariables(s2) /\ returned.value.results[s2].success


(***************************************************************************)
(* Properties of the steps of a run.                                       *)
(***************************************************************************)
\* the run is over: the function returned, or the scheduler gave it up
Terminal == pc \in {"returned", "failed"}

\* every execution of step 'store-results-blob' ended with a failed write
BlobWriteFailed == attempts = MaxAttempts

\* C14: a run whose blob write fails still completes: it returns the
\* EvalRunResult without a resultsUrl, and with the results and the counts
\* calculated before the failure.
PersistenceFailureTolerated ==
    (Terminal /\ BlobWriteFailed) =>
        /\ returned.done
        /\ ~returned.value.resultsUrl.has
        /\ returned.value.results = allResults
        /\ returned.value.successCount = CountWhere(allResults, TRUE)
        /\ returned.value.failureCount = CountWhere(allResults, FALSE)


\* C15: the run id of a run is one: every execution of step
\* 'store-results-blob' writes under the key of the same evalId, and that
\* evalId is the one in the metadata of the run's trace and the one of the
\* EvalRunResult the function returns.
RunIdIsStable ==
    /\ \A k1, k2 \in blobKeys : k1 = k2
    /\ record.created => \A k \in blobKeys : k = record.evalId
    /\ returned.done =>
          /\ \A k \in blobKeys : k = returned.value.evalId
          /\ record.created => returned.value.evalId = record.evalId


\* C16: the limit the batch loop runs with is at least 1: it is 10 for a
\* request that leaves concurrency unset, and no batch is started with a limit
\* of 0 or below.
LimitAtLeastOne ==
    /\ ~request.concurrency.set => Concurrency(request) = DefaultConcurrency
    /\ batchNo >= 1 => Concurrency(request) >= 1


\* C17: every run finishes step 'run-evaluations' and comes to its end,
\* whatever the trace ids and the concurrency of the request, when every call
\* returns or throws.
RunTerminates == <>Terminal


(***************************************************************************)
(* Properties of the schema translator.                                    *)
(***************************************************************************)
\* the kinds of value a Zod type takes as its input
RECURSIVE InputKinds(_)
InputKinds(schema) ==
    CASE schema.typeName \in {"ZodOptional", "ZodDefault"} ->
            InputKinds(schema.inner[1]) \cup {"undefined"}
      [] schema.typeName = "ZodNullable" ->
            InputKinds(schema.inner[1]) \cup {"null"}
      [] schema.typeName = "ZodEffects" -> InputKinds(schema.inner[1])
      [] schema.typeName = "ZodUnion" ->
            UNION {InputKinds(schema.inner[n]) : n \in 1..Len(schema.inner)}
      [] OTHER -> {schema.typeName}

FieldsOf(schema) == {schema.shape[n] : n \in 1..Len(schema.shape)}
NotOptional(schema) == {f \in FieldsOf(schema) : "undefined" \notin InputKinds(f.value)}
RequiredNames(translated) == {translated.required.v[n] : n \in 1..Len(translated.required.v)}

\* C18: the required list of a translated object schema holds exactly the
\* names of the fields whose type is not optional, an optional or a default
\* wrapped field is not in it, and it is absent when no field is required.
RequiredIsTheNonOptionalFields ==
    spc = "returned" =>
        /\ RequiredNames(geminiSchema) = {f.key : f \in NotOptional(zodSchema)}
        /\ \A f \in FieldsOf(zodSchema) :
              f.value.typeName \in {"ZodOptional", "ZodDefault"} =>
                  f.key \notin RequiredNames(geminiSchema)
        /\ geminiSchema.required.has <=> NotOptional(zodSchema) # {}
        /\ geminiSchema.required.has =>
              Len(geminiSchema.required.v) = Cardinality(NotOptional(zodSchema))

\* a translated object schema with one optional and one required field: the
\* list holds the name of the required field only
OnlyTheRequiredFieldListed ==
    /\ spc = "returned"
    /\ Len(zodSchema.shape) = 2
    /\ \E f1, f2 \in FieldsOf(zodSchema) :
          /\ f1.value = ZodOptional(ZodString)
          /\ f2.value = ZodString
          /\ geminiSchema.required = [has |-> TRUE, v |-> <<f2.key>>]


(***************************************************************************)
(* Properties of the order of the phases of a run.                         *)
(***************************************************************************)
\* the place of a position of the run in the order of the phases: creation
\* of the run's trace, batched execution, persistence (the summary is
\* calculated on the way to it), update of the trace, flush, return
PhaseRank(position) ==
    CASE position = "create-eval-trace" -> 1
      [] position \in {"run-evaluations", "await-batch"} -> 2
      [] position = "store-results-blob" -> 3
      [] position = "update-eval-trace" -> 4
      [] position = "flush" -> 5
      [] position = "return" -> 6
      [] position = "returned" -> 7
      [] OTHER -> 0

\* C19: a run goes through its phases in the one order, none left out and
\* none again after a later one; the run's trace gets the counters and the
\* results url only when step 'store-results-blob' has returned the url, and
\* the flush has ended when the function returns.
PhasesInOrder ==
    /\ [][pc' = "failed" \/ PhaseRank(pc') \in {PhaseRank(pc), PhaseRank(pc) + 1}]_vars
    /\ [](PhaseRank(pc) >= 3 => evalResult.results = allResults)
    /\ [](record.completed =>
             /\ PhaseRank(pc) > 4
             /\ evalResult.resultsUrl.has
             /\ record.resultsUrl = evalResult.resultsUrl)
    /\ [](record.flushed => record.completed)
    /\ [](returned.done =>
             /\ returned.value.resultsUrl.has
             /\ HasLangfuse => record.flushed)

\* a run that went through every phase: its trace was created, updated with
\* the results url and flushed, and the function returned
ReturnedAfterFlush ==
    /\ returned.done
    /\ Len(returned.value.results) >= 2
    /\ record.created /\ record.completed /\ record.flushed
    /\ record.resultsUrl = returned.value.resultsUrl


(***************************************************************************)
(* Properties of the order of substitution.                                *)
(***************************************************************************)
\* the template is one placeholder of the first key of the variables, so that
\* after the first key the text is the text inserted for it
FirstKeyOnly ==
    /\ Len(variables) = 2
    /\ template \in {Braced1(variables[1].k), Braced2(variables[1].k)}

\* C20: the text inserted as the value of an earlier key is not matched and
\* replaced by a later key: a template that is one placeholder of the first
\* key is filled as it is filled without the later key.
InsertedTextNotRescanned ==
    (tpc \in {"filled", "refilled"} /\ FirstKeyOnly /\ ~filled.thrown) =>
        filled = fillVariables(template, <<variables[1]>>)


(***************************************************************************)
(* Properties of the inserted values.                                      *)
(***************************************************************************)
\* the template is one placeholder, {k} or {{k}}, of the one key k of the
\* variables
OnePlaceholderOfTheKey ==
    /\ Len(variables) = 1
    /\ template \in {Braced1(variables[1].k), Braced2(variables[1].k)}

\* C21: a placeholder of a key is replaced by the string form of the key's
\* value, and that text is in the final text as it is, whatever the value
\* holds.
PlaceholderBecomesTheValue ==
    (tpc \in {"filled", "refilled"} /\ OnePlaceholderOfTheKey /\ ~filled.thrown) =>
        filled.text = StringOf(variables[1].v)


(***************************************************************************)
(* Properties of the detection of the role markers.                        *)
(***************************************************************************)
\* the draft holds a role marker, in whatever case, with a segment after it
\* that is not blank
SegmentAfterMarker ==
    \E m \in 1..Len(draftPrompt) :
        /\ draftPrompt[m] \in Markers
        /\ \E n \in (m + 1)..Len(draftPrompt) :
              draftPrompt[n] \notin Markers \cup {" "}

\* C22: a draft that is not a structured array and holds a role marker in
\* any letter case is detected as marker blocks, every segment that is not
\* blank with the role of the marker seen last before it.
MarkersDetectedInAnyCase ==
    (/\ tpc = "parsed"
     /\ ~filledPrompt.thrown
     /\ ~JsonBranch(draftPrompt, variables).taken
     /\ SegmentAfterMarker) =>
        LET blocks == MarkerScan(draftPrompt, <<>>, "", <<>>)
        IN  /\ filledPrompt.format = "text-markers"
            /\ Len(filledPrompt.messages) = Len(blocks)
            /\ \A n \in 1..Len(blocks) :
                  filledPrompt.messages[n].role = <<blocks[n].role>>


(***************************************************************************)
(* Properties of the per-trace results.                                    *)
(***************************************************************************)
\* C23: every result with success = false, from a resolution that found
\* nothing or from an exception, has an error message that is not empty and
\* the latency measured up to the failure.
FailedResultsCarryErrorAndLatency ==
    \A s \in DOMAIN ev :
        (ev[s].st = "done" /\ ~ev[s].result.success) =>
            /\ ev[s].result.error # ""
            /\ ev[s].result.hasLatency


(***************************************************************************)
(* Properties of a failed observation fetch.                               *)
(***************************************************************************)
\* the trace was fetched and the fetch of its observations failed, by its
\* status or by a thrown error
ObservationFetchFailed ==
    /\ rpc = "returned"
    /\ credentials
    /\ responses.traceFetch = "ok"
    /\ responses.obsFetch \in {"status", "throw"}

\* C24: after a failed observation fetch the resolution goes on with no
\* observations: the variables of the trace metadata or of the trace input
\* are returned, with no original output and no observation.
ObservationFetchFailureDegrades ==
    ObservationFetchFailed =>
        /\ NestedVariables # <<>> =>
              ResolvedFrom(NestedVariables, <<"trace:metadata">>)
        /\ (TraceMetadataVariables(trace) = <<>> /\ InputVariables # <<>>) =>
              ResolvedFrom(InputVariables, <<"trace:input">>)
        /\ resolved.found =>
              ~resolved.originalOutput.has /\ resolved.observation = 0

(***************************************************************************)
(* Properties of the observation a resolved result is built around.  The   *)
(* schema and the tools of a result are read from the observation the      *)
(* result names (getSchemaFromObservation, getToolsFromObservation), so    *)
(* the observation and its output stand for them.                          *)
(***************************************************************************)
\* the call returned variables found in an observation's metadata
FoundInObservation ==
    /\ Fetched
    /\ resolved.found
    /\ Len(resolved.source) = 2
    /\ resolved.source[1] = "observation"

\* the output the code extracts from the fetched observation at place n,
\* none for no observation
OutputOf(n) ==
    IF n = 0 THEN None ELSE extractObservationOutput(observations[n])

\* C25: a result whose variables were found in an observation's metadata is
\* built around that observation, the first in fetch order with variables:
\* its tag names it and the original output (and so the schema and the
\* tools) is its own, whichever observation matches the prompt name; a
\* result whose variables were found at trace level is built around the
\* observation findMatchingObservation() chooses.
OutputFromTheSourceObservation ==
    /\ FoundInObservation =>
          /\ FirstCarrier # 0
          /\ resolved.observation = FirstCarrier
          /\ resolved.source = <<"observation", stored[FirstCarrier].id>>
          /\ resolved.variables = ObservationVariables(FirstCarrier)
          /\ resolved.originalOutput = OutputOf(FirstCarrier)
    /\ (Fetched /\ MatchedAtTraceLevel) =>
          /\ resolved.observation
                 = findMatchingObservation(observations, originalPromptName)
          /\ resolved.originalOutput = OutputOf(resolved.observation)

\* variables found in the second observation while the first one has the
\* prompt's name and another output: the result keeps the second
CarrierBesideTheNamedObservation ==
    /\ FoundInObservation
    /\ resolved.observation = 2
    /\ TruthyText(originalPromptName)
    /\ ExactMatch(observations[1], originalPromptName.s)
    /\ ~ExactMatch(observations[2], originalPromptName.s)
    /\ OutputOf(1) # OutputOf(2)
    /\ resolved.originalOutput = OutputOf(2)

(***************************************************************************)
(* Properties of the outputs a request supplies with its trace ids.        *)
(***************************************************************************)
\* the request supplies an output for the trace id at position s
HasProvidedOutput(s) == ProvidedOutput(s).has

\* the supplied output as the result is to carry it: verbatim when a string,
\* serialized otherwise
ProvidedText(s) ==
    LET v == ProvidedOutput(s).v
    IN  IF v.t = "str" THEN v.s ELSE Stringify(v)

\* the original production output of a result, the empty text for none
ProductionOutputOf(result) ==
    IF result.originalProductionOutput.has
    THEN result.originalProductionOutput.s
    ELSE <<>>

\* C26: a successful result of a trace id with a supplied output carries that
\* output as its original production output, for every supplied value, and
\* the supplied output resolves no variables: a trace whose variables are
\* not found fails although an output was supplied for it.
SuppliedOutputIsUsed ==
    \A s \in DOMAIN ev :
        (ev[s].st = "done" /\ HasProvidedOutput(s)) =>
            /\ ev[s].result.success =>
                   /\ ProductionOutputOf(ev[s].result) = ProvidedText(s)
                   /\ ev[s].result.input = TraceData(s).variables
            /\ ~TraceData(s).found => ~ev[s].result.success

\* the same for the supplied outputs that are not empty
NonEmptySuppliedOutputIsUsed ==
    \A s \in DOMAIN ev :
        (ev[s].st = "done" /\ HasProvidedOutput(s)
            /\ TruthyVal(ProvidedOutput(s).v)) =>
            /\ ev[s].result.success =>
                   /\ ProductionOutputOf(ev[s].result) = ProvidedText(s)
                   /\ ev[s].result.input = TraceData(s).variables
            /\ ~TraceData(s).found => ~ev[s].result.success

(***************************************************************************)
(* Properties of the parsed value of a result.                             *)
(***************************************************************************)
\* the evaluation at position s had a schema, and its provider call returned
\* the given kind of text
AnsweredWithSchema(s, texts) ==
    /\ ev[s].st = "done"
    /\ ev[s].calls = 1
    /\ env[s].provider = "returns"
    /\ MetadataSchema(s)
    /\ env[s].text \in texts

\* C27: with a schema present, for either provider, an output that is not
\* valid JSON or does not satisfy the schema gives a successful result
\* whose parsed value is null.
InvalidOutputParsesToNull ==
    \A s \in DOMAIN ev :
        AnsweredWithSchema(s, {"mismatch", "notjson"}) =>
            ev[s].result.success /\ ev[s].result.parsed = "null"

\* the same for the provider whose output the evaluation validates itself
InvalidOutputParsesToNullForGemini ==
    request.provider = "gemini" => InvalidOutputParsesToNull

(***************************************************************************)
(* Properties of the translation of literals.                              *)
(***************************************************************************)
\* the primitive type of a literal value
InferredType(value) ==
    CASE value.t = "str" -> "STRING"
      [] value.t = "num" -> "NUMBER"
      [] value.t = "bool" -> "BOOLEAN"

\* the translation is the inferred type with an enum of the one value
IsEnumOfOne(translated, value) ==
    /\ translated.type = InferredType(value)
    /\ translated.enum = [has |-> TRUE, v |-> <<value.s>>]

\* the fields of the translated object whose type is a literal of these kinds
LiteralFields(kinds) ==
    {n \in 1..Len(zodSchema.shape) :
        /\ zodSchema.shape[n].value.typeName = "ZodLiteral"
        /\ zodSchema.shape[n].value.value.t \in kinds}

\* C28: every literal of a string, a number or a boolean translates to the
\* inferred primitive type with an enum holding exactly the literal value.
LiteralIsEnumOfOne ==
    spc = "returned" =>
        \A n \in LiteralFields({"str", "num", "bool"}) :
            IsEnumOfOne(geminiSchema.properties[n].value,
                        zodSchema.shape[n].value.value)

\* the same for the literals of a string
StringLiteralIsEnumOfOne ==
    spc = "returned" =>
        \A n \in LiteralFields({"str"}) :
            IsEnumOfOne(geminiSchema.properties[n].value,
                        zodSchema.shape[n].value.value)

\* the literals of a number and of a boolean translate to the inferred type
LiteralTypeIsInferred ==
    spc = "returned" =>
        \A n \in LiteralFields({"str", "num", "bool"}) :
            geminiSchema.properties[n].value.type
                = InferredType(zodSchema.shape[n].value.value)

(***************************************************************************)
(* Properties of the order of the results.                                 *)
(***************************************************************************)
\* a result for every submitted trace id, at the place of the trace id
AlignedWithTraceIds(results) ==
    /\ Len(results) = Len(request.traceIds)
    /\ \A k \in DOMAIN results : results[k].traceId = request.traceIds[k]

\* C29: the results of an EvalRunResult are as many as the submitted trace
\* ids and in their order, results[k].traceId = traceIds[k], in whatever
\* order the evaluations of a batch return and also with a trace id
\* submitted more than once.
ResultsInSubmittedOrder ==
    /\ evalResult # NoEvalResult => AlignedWithTraceIds(evalResult.results)
    /\ returned.done => AlignedWithTraceIds(returned.value.results)

\* a returned run of three trace ids evaluated in one batch, one of them
\* submitted twice with another one between the two
DuplicateIdsReturned ==
    /\ returned.done
    /\ Len(request.traceIds) = 3
    /\ request.traceIds[1] = request.traceIds[3]
    /\ request.traceIds[1] # request.traceIds[2]
    /\ \A s \in DOMAIN ev : ev[s].batch = 1
    /\ returned.value.results[1].success
    /\ ~returned.value.results[2].success
    /\ returned.value.results[3].traceId = request.traceIds[3]

(***************************************************************************)
(* Properties of the provider calls behind a successful result.            *)
(***************************************************************************)
\* C30: a result with success = true stands for exactly one provider adapter
\* call made for its trace, which returned without throwing; no request,
\* whatever its provider value, gives success = true without a provider call.
SuccessMeansOneProviderCall ==
    \A s \in DOMAIN ev :
        (ev[s].st = "done" /\ ev[s].result.success) =>
            /\ ev[s].calls = 1
            /\ env[s].provider = "returns"

\* the same for the requests that name one of the two providers
SuccessMeansOneCallOfAKnownProvider ==
    request.provider \in {"openai", "gemini"} => SuccessMeansOneProviderCall

====
